---------------------------- MODULE Spec2Model ----------------------------
(***************************************************************************)
(* A model of the swap-offer pipeline of waku-frontend (src/src/App.tsx).  *)
(*                                                                         *)
(* Texts are sequences of one-character strings, so that substring tests,  *)
(* regular-expression scans, base64 and JSON.parse are computed on the     *)
(* characters, as the browser computes them.  JavaScript values are        *)
(* tagged records (field t).                                               *)
(***************************************************************************)
EXTENDS Integers, Sequences, FiniteSets, TLC

(***************************************************************************)
(* Characters                                                              *)
(***************************************************************************)
QUOTE == "\""
BSLASH == "\\"

\* The printable ASCII characters, in code order: AsciiTable[i] has code i + 31
\* (the grave accent, code 96, is written U+0060).
AsciiTable ==
  << " ", "!", QUOTE, "#", "$", "%", "&", "'", "(", ")", "*", "+", ",", "-", ".", "/",
     "0", "1", "2", "3", "4", "5", "6", "7", "8", "9", ":", ";", "<", "=", ">", "?",
     "@", "A", "B", "C", "D", "E", "F", "G", "H", "I", "J", "K", "L", "M", "N", "O",
     "P", "Q", "R", "S", "T", "U", "V", "W", "X", "Y", "Z", "[", BSLASH, "]", "^", "_",
     "U+0060", "a", "b", "c", "d", "e", "f", "g", "h", "i", "j", "k", "l", "m", "n", "o",
     "p", "q", "r", "s", "t", "u", "v", "w", "x", "y", "z", "{", "|", "}", "~" >>

AsciiChars == {AsciiTable[i] : i \in 1..Len(AsciiTable)}

\* Characters outside printable ASCII are named by their code point.  U+00E9
\* (e acute) stands for the non-ASCII letters, U+FFFD is the decoder's
\* replacement character, U+000A the line feed, U+0000 the other controls.
CH_EACUTE == "U+00E9"
CH_REPLACEMENT == "U+FFFD"
CH_LF == "U+000A"
CH_CTL == "U+0000"

CodeOf == [c \in AsciiChars |-> CHOOSE i \in 32..126 : AsciiTable[i - 31] = c]

Digits == {"0", "1", "2", "3", "4", "5", "6", "7", "8", "9"}
DigitVal == [c \in Digits |-> CodeOf[c] - 48]
DigitChar(d) == AsciiTable[d + 17]

\* String.prototype.toUpperCase on one character.
UpperChar(c) ==
  IF c \in AsciiChars /\ CodeOf[c] >= 97 /\ CodeOf[c] <= 122
    THEN AsciiTable[CodeOf[c] - 32 - 31]
    ELSE IF c = CH_EACUTE THEN "U+00C9" ELSE c

toUpperCase(s) == [i \in 1..Len(s) |-> UpperChar(s[i])]

(***************************************************************************)
(* Texts                                                                   *)
(***************************************************************************)
\* String.prototype.includes
includes(text, pat) ==
  \E i \in 0..(Len(text) - Len(pat)) :
    \A j \in 1..Len(pat) : text[i + j] = pat[j]

\* String.prototype.startsWith
startsWith(text, pat) ==
  /\ Len(pat) <= Len(text)
  /\ \A j \in 1..Len(pat) : text[j] = pat[j]

Quoted(s) == <<QUOTE>> \o s \o <<QUOTE>>

RECURSIVE NatDigits(_)
NatDigits(n) ==
  IF n < 10 THEN <<DigitChar(n)>> ELSE NatDigits(n \div 10) \o <<DigitChar(n % 10)>>

RECURSIVE Pow10(_)
Pow10(k) == IF k = 0 THEN 1 ELSE 10 * Pow10(k - 1)

(***************************************************************************)
(* UTF-8 and base64 (App.tsx lines 51-62, and the browser's atob, btoa,    *)
(* TextEncoder and TextDecoder)                                            *)
(***************************************************************************)
B64Table ==
  << "A", "B", "C", "D", "E", "F", "G", "H", "I", "J", "K", "L", "M", "N", "O", "P",
     "Q", "R", "S", "T", "U", "V", "W", "X", "Y", "Z", "a", "b", "c", "d", "e", "f",
     "g", "h", "i", "j", "k", "l", "m", "n", "o", "p", "q", "r", "s", "t", "u", "v",
     "w", "x", "y", "z", "0", "1", "2", "3", "4", "5", "6", "7", "8", "9", "+", "/" >>

B64Chars == {B64Table[i] : i \in 1..Len(B64Table)}
B64Val == [c \in B64Chars |-> (CHOOSE i \in 1..64 : B64Table[i] = c) - 1]

\* The concatenation of the sequences ss[lo..hi], by halves.
RECURSIVE FlattenRange(_, _, _)
FlattenRange(ss, lo, hi) ==
  IF lo > hi THEN <<>>
  ELSE IF lo = hi THEN ss[lo]
  ELSE LET mid == (lo + hi) \div 2 IN
    FlattenRange(ss, lo, mid) \o FlattenRange(ss, mid + 1, hi)

Flatten(ss) == FlattenRange(ss, 1, Len(ss))

\* The character of a code point.  The texts of the model hold printable
\* ASCII, the line feed, e acute in both cases and U+FFFD; U+0000 stands for
\* the other controls and U+OTHER for the other code points.
CharOfCode(n) ==
  IF n >= 32 /\ n <= 126 THEN AsciiTable[n - 31]
  ELSE IF n = 233 THEN CH_EACUTE
  ELSE IF n = 201 THEN "U+00C9"
  ELSE IF n = 10 THEN CH_LF
  ELSE IF n = 65533 THEN CH_REPLACEMENT
  ELSE IF n < 128 THEN CH_CTL
  ELSE "U+OTHER"

\* TextEncoder.encode of one character.
Utf8OfChar(c) ==
  IF c \in AsciiChars THEN <<CodeOf[c]>>
  ELSE IF c = CH_EACUTE THEN <<195, 169>>
  ELSE IF c = "U+00C9" THEN <<195, 137>>
  ELSE IF c = CH_LF THEN <<10>>
  ELSE IF c = CH_CTL THEN <<0>>
  ELSE <<239, 191, 189>>

TextEncode(text) == Flatten([i \in 1..Len(text) |-> Utf8OfChar(text[i])])

\* new TextDecoder().decode(bytes): UTF-8, not fatal.  A lead byte with its
\* continuation bytes decodes to one character, every other byte of 128 or
\* more to U+FFFD.  (Sequences of four bytes, and the decoder's joining of a
\* truncated sequence into one U+FFFD, are not modelled: no payload of the
\* model holds them.)
IsCont(bytes, i) == i >= 1 /\ i <= Len(bytes) /\ bytes[i] >= 128 /\ bytes[i] <= 191
Lead2(bytes, i) ==
  i >= 1 /\ i <= Len(bytes) /\ bytes[i] >= 194 /\ bytes[i] <= 223 /\ IsCont(bytes, i + 1)
Lead3(bytes, i) ==
  /\ i >= 1 /\ i <= Len(bytes) /\ bytes[i] >= 224 /\ bytes[i] <= 239
  /\ IsCont(bytes, i + 1) /\ IsCont(bytes, i + 2)
Consumed(bytes, i) ==
  IsCont(bytes, i) /\ (Lead2(bytes, i - 1) \/ Lead3(bytes, i - 1) \/ Lead3(bytes, i - 2))

DecodeAt(bytes, i) ==
  IF Consumed(bytes, i) THEN <<>>
  ELSE IF bytes[i] < 128 THEN <<CharOfCode(bytes[i])>>
  ELSE IF Lead2(bytes, i)
    THEN <<CharOfCode((bytes[i] - 192) * 64 + (bytes[i + 1] - 128))>>
  ELSE IF Lead3(bytes, i)
    THEN <<CharOfCode((bytes[i] - 224) * 4096 + (bytes[i + 1] - 128) * 64
                         + (bytes[i + 2] - 128))>>
  ELSE <<CH_REPLACEMENT>>

TextDecode(bytes) == Flatten([i \in 1..Len(bytes) |-> DecodeAt(bytes, i)])

\* btoa on the binary string of the bytes (base64FromBytes, lines 54-58):
\* three bytes make four characters, the last group is padded with "=".
ByteAt(bytes, i) == IF i <= Len(bytes) THEN bytes[i] ELSE 0

base64FromBytes(bytes) ==
  LET n == Len(bytes)
      groups == (n + 2) \div 3
  IN [k \in 1..(4 * groups) |->
        LET q == (k - 1) \div 4
            r == (k - 1) % 4
            b0 == ByteAt(bytes, 3 * q + 1)
            b1 == ByteAt(bytes, 3 * q + 2)
            b2 == ByteAt(bytes, 3 * q + 3)
        IN CASE r = 0 -> B64Table[(b0 \div 4) + 1]
             [] r = 1 -> B64Table[((b0 % 4) * 16 + b1 \div 16) + 1]
             [] r = 2 -> IF 3 * q + 2 > n THEN "="
                         ELSE B64Table[((b1 % 16) * 4 + b2 \div 64) + 1]
             [] r = 3 -> IF 3 * q + 3 > n THEN "=" ELSE B64Table[(b2 % 64) + 1]]

\* encodeBase64Utf8 (lines 59-62)
encodeBase64Utf8(text) == base64FromBytes(TextEncode(text))

\* atob: ASCII whitespace is removed, up to two trailing "=" are dropped when
\* the length is a multiple of four, and the rest must be base64 characters
\* whose number is not 1 mod 4; otherwise atob throws.
StripWs(s) == SelectSeq(s, LAMBDA c : c \notin {" ", CH_LF})

StripPad(s) ==
  LET n == Len(s) IN
  IF n % 4 = 0 /\ n > 0 /\ s[n] = "="
    THEN IF s[n - 1] = "=" THEN SubSeq(s, 1, n - 2) ELSE SubSeq(s, 1, n - 1)
    ELSE s

AtobThrows(b64) ==
  LET d == StripPad(StripWs(b64)) IN
  \/ Len(d) % 4 = 1
  \/ \E i \in 1..Len(d) : d[i] \notin B64Chars

\* The bytes of the sextets d: byte j takes its eight bits from the sextets
\* that hold them; the bits left over at the end are dropped.
SextetsToBytes(d) ==
  [j \in 1..((Len(d) * 3) \div 4) |->
     LET q == ((8 * (j - 1)) \div 6) + 1
         o == (8 * (j - 1)) % 6
         s0 == B64Val[d[q]]
         s1 == B64Val[d[q + 1]]
     IN CASE o = 0 -> s0 * 4 + s1 \div 16
          [] o = 2 -> (s0 % 16) * 16 + s1 \div 4
          [] o = 4 -> (s0 % 4) * 64 + s1]

\* bytesFromBase64 (lines 52-53), where atob does not throw.
bytesFromBase64(b64) == SextetsToBytes(StripPad(StripWs(b64)))

(***************************************************************************)
(* JavaScript values                                                       *)
(*                                                                         *)
(* A finite number is m / 10^e, kept normalised (e = 0, or m not a         *)
(* multiple of ten).  Quotients are exact; the model holds no number that  *)
(* a double does not tell apart from its neighbours.                       *)
(***************************************************************************)
Undefined == [t |-> "undef"]
Null == [t |-> "null"]
NaN == [t |-> "nan"]
Bool(b) == [t |-> "bool", b |-> b]
Str(s) == [t |-> "str", s |-> s]
Obj(kv) == [t |-> "obj", kv |-> kv]
Arr(a) == [t |-> "arr", a |-> a]
KV(k, v) == [k |-> k, v |-> v]

RECURSIVE Num(_, _)
Num(m, e) ==
  IF e < 0 THEN Num(m * 10, e + 1)
  ELSE IF e > 0 /\ m % 10 = 0 THEN Num(m \div 10, e - 1)
  ELSE [t |-> "num", m |-> m, e |-> e]

IntNum(n) == Num(n, 0)

IsNumber(v) == v.t \in {"num", "nan"}

\* ToBoolean
Truthy(v) ==
  CASE v.t \in {"undef", "null", "nan"} -> FALSE
    [] v.t = "bool" -> v.b
    [] v.t = "num" -> v.m # 0
    [] v.t = "str" -> v.s # <<>>
    [] OTHER -> TRUE

\* typeof v === 'object'
TypeofObject(v) == v.t \in {"obj", "arr", "null"}

HasOwn(v, key) == v.t = "obj" /\ \E i \in 1..Len(v.kv) : v.kv[i].k = key

\* v.key, where v is neither undefined nor null (there the access throws a
\* TypeError).  JSON.parse keeps the last of two members with one key.  None of
\* the keys the pipeline reads is a property of String, Number, Boolean or
\* Array.prototype.
Get(v, key) ==
  IF HasOwn(v, key)
    THEN v.kv[CHOOSE i \in 1..Len(v.kv) :
                 /\ v.kv[i].k = key
                 /\ \A j \in (i + 1)..Len(v.kv) : v.kv[j].k # key].v
    ELSE Undefined

GetThrows(v) == v.t \in {"undef", "null"}

K_toString == <<"t", "o", "S", "t", "r", "i", "n", "g">>

\* v.toString() throws a TypeError on undefined and null, and on an object
\* whose own member "toString" (never a function, in a value of JSON.parse)
\* shadows Object.prototype.toString; an array joins its elements and throws
\* when one of them does.
RECURSIVE ToStringThrows(_)
ToStringThrows(v) ==
  CASE v.t \in {"undef", "null"} -> TRUE
    [] v.t = "obj" -> HasOwn(v, K_toString)
    [] v.t = "arr" ->
         \E i \in 1..Len(v.a) :
           v.a[i].t \notin {"undef", "null"} /\ ToStringThrows(v.a[i])
    [] OTHER -> FALSE

\* Number.prototype.toString: decimal digits; below 1e-6 the exponent form.
NumToString(n) ==
  LET a == IF n.m < 0 THEN -n.m ELSE n.m
      sign == IF n.m < 0 THEN <<"-">> ELSE <<>>
      ds == NatDigits(a)
      L == Len(ds)
  IN IF n.e = 0 THEN sign \o ds
     ELSE IF n.e - L >= 6 THEN
       \* a = d1 d2 .. dL, value d1.d2..dL * 10^-(e - L + 1)
       sign \o <<ds[1]>> \o (IF L > 1 THEN <<".">> \o SubSeq(ds, 2, L) ELSE <<>>)
            \o <<"e", "-">> \o NatDigits(n.e - L + 1)
     ELSE IF L > n.e THEN
       sign \o SubSeq(ds, 1, L - n.e) \o <<".">> \o SubSeq(ds, L - n.e + 1, L)
     ELSE sign \o <<"0", ".">> \o [i \in 1..(n.e - L) |-> "0"] \o ds

RECURSIVE ToStringJS(_)
RECURSIVE JoinJS(_)
JoinJS(a) ==
  IF a = <<>> THEN <<>>
  ELSE (IF a[1].t \in {"undef", "null"} THEN <<>> ELSE ToStringJS(a[1]))
       \o (IF Len(a) > 1 THEN <<",">> \o JoinJS(Tail(a)) ELSE <<>>)

\* v.toString(), where it does not throw.
ToStringJS(v) ==
  CASE v.t = "str" -> v.s
    [] v.t = "num" -> NumToString(v)
    [] v.t = "nan" -> <<"N", "a", "N">>
    [] v.t = "bool" -> IF v.b THEN <<"t", "r", "u", "e">> ELSE <<"f", "a", "l", "s", "e">>
    [] v.t = "obj" -> <<"[", "o", "b", "j", "e", "c", "t", " ", "O", "b", "j", "e", "c", "t", "]">>
    [] v.t = "arr" -> JoinJS(v.a)

(***************************************************************************)
(* Scanning numbers: parseFloat and the number token of JSON               *)
(***************************************************************************)
\* The index after the longest run of digits of s that starts at i.
RECURSIVE DigitRun(_, _)
DigitRun(s, i) ==
  IF i <= Len(s) /\ s[i] \in Digits THEN DigitRun(s, i + 1) ELSE i

RECURSIVE DigitsVal(_, _, _)
DigitsVal(s, i, j) ==
  \* the value of the digits s[i..j-1]
  IF j <= i THEN 0 ELSE DigitsVal(s, i, j - 1) * 10 + DigitVal[s[j - 1]]

At(s, i) == IF i >= 1 /\ i <= Len(s) THEN s[i] ELSE "U+EOF"

WhiteSpace == {" ", CH_LF}

RECURSIVE SkipWs(_, _)
SkipWs(s, i) == IF At(s, i) \in WhiteSpace THEN SkipWs(s, i + 1) ELSE i

\* const x = v, for the rest of a computation: Body of the value v.
Bind(v, Body(_)) == Body(v)

\* The decimal literal that starts at i: digits, an optional fraction and an
\* optional exponent.  [ok, v, p]: whether there is one, its value, and the
\* index after it.  leadDot: ".5" is a literal; trailDot: "5." is one.
ScanDecimal(s, i, leadDot, trailDot) ==
  Bind(DigitRun(s, i), LAMBDA intEnd :
  Bind(IF At(s, intEnd) = "." THEN DigitRun(s, intEnd + 1) ELSE intEnd, LAMBDA fracEnd :
    LET hasInt == intEnd > i
        dot == At(s, intEnd) = "."
        hasFrac == dot /\ fracEnd > intEnd + 1
        okMant == (hasInt /\ (~dot \/ hasFrac \/ trailDot)) \/ (~hasInt /\ hasFrac /\ leadDot)
        k == IF hasFrac THEN fracEnd - intEnd - 1 ELSE 0
    IN
    \* the mantissa ends after the fraction, or after the integer part
    \* when the dot is followed by no digit and is not part of the literal
    Bind(IF hasFrac \/ (dot /\ trailDot /\ hasInt) THEN fracEnd ELSE intEnd, LAMBDA mantEnd :
    Bind(IF At(s, mantEnd + 1) \in {"+", "-"} THEN mantEnd + 2 ELSE mantEnd + 1,
         LAMBDA expStart :
    Bind(DigitRun(s, expStart), LAMBDA expEnd :
      LET isE == At(s, mantEnd) \in {"e", "E"}
          hasExp == isE /\ expEnd > expStart
          x == IF hasExp THEN DigitsVal(s, expStart, expEnd) ELSE 0
          mant == DigitsVal(s, i, intEnd) * Pow10(k)
                    + (IF hasFrac THEN DigitsVal(s, intEnd + 1, fracEnd) ELSE 0)
      IN [ ok |-> okMant,
           v |-> IF ~okMant THEN NaN
                 ELSE IF hasExp /\ At(s, mantEnd + 1) = "-" THEN Num(mant, k + x)
                 ELSE Num(mant, k - x),
           p |-> IF hasExp THEN expEnd ELSE mantEnd,
           badExp |-> isE /\ ~hasExp ])))))

\* parseFloat(s): leading white space, a sign, then the longest decimal
\* literal; NaN when there is none.  ("Infinity" is not a text of the model.)
parseFloat(s) ==
  Bind(SkipWs(s, 1), LAMBDA i :
  Bind(ScanDecimal(s, IF At(s, i) \in {"+", "-"} THEN i + 1 ELSE i, TRUE, TRUE), LAMBDA d :
    IF ~d.ok THEN NaN
    ELSE IF At(s, i) = "-" THEN Num(-d.v.m, d.v.e) ELSE d.v))

(***************************************************************************)
(* JSON.parse and JSON.stringify                                           *)
(*                                                                         *)
(* A parser step returns [ok, v, p]: whether a value was read, the value,  *)
(* and the index after it.                                                 *)
(***************************************************************************)
Fail == [ok |-> FALSE, v |-> Undefined, p |-> 0]
Ok(v, p) == [ok |-> TRUE, v |-> v, p |-> p]

HexDigits == Digits \cup {"a", "b", "c", "d", "e", "f", "A", "B", "C", "D", "E", "F"}
HexVal(c) == IF c \in Digits THEN DigitVal[c]
             ELSE IF CodeOf[c] >= 97 THEN CodeOf[c] - 87 ELSE CodeOf[c] - 55

\* The characters of a string literal whose opening quote is at i - 1.
RECURSIVE ParseChars(_, _, _)
ParseChars(s, i, acc) ==
  LET c == At(s, i) IN
  IF c = QUOTE THEN Ok(Str(acc), i + 1)
  ELSE IF c \in {"U+EOF", CH_LF, CH_CTL} THEN Fail
  ELSE IF c = BSLASH THEN
    LET d == At(s, i + 1) IN
    IF d \in {QUOTE, BSLASH, "/"} THEN ParseChars(s, i + 2, Append(acc, d))
    ELSE IF d = "n" THEN ParseChars(s, i + 2, Append(acc, CH_LF))
    ELSE IF d \in {"b", "f", "r", "t"} THEN ParseChars(s, i + 2, Append(acc, CH_CTL))
    ELSE IF d = "u" /\ \A k \in 2..5 : At(s, i + k) \in HexDigits THEN
      ParseChars(s, i + 6,
        Append(acc, CharOfCode(HexVal(s[i + 2]) * 4096 + HexVal(s[i + 3]) * 256
                                 + HexVal(s[i + 4]) * 16 + HexVal(s[i + 5]))))
    ELSE Fail
  ELSE ParseChars(s, i + 1, Append(acc, c))

ParseNumber(s, i) ==
  Bind(IF At(s, i) = "-" THEN i + 1 ELSE i, LAMBDA j :
  Bind(ScanDecimal(s, j, FALSE, FALSE), LAMBDA d :
    IF ~d.ok \/ d.badExp \/ (At(s, j) = "0" /\ At(s, j + 1) \in Digits)
      THEN Fail
      ELSE Ok(IF At(s, i) = "-" THEN Num(-d.v.m, d.v.e) ELSE d.v, d.p)))

Word(s, i, w) == \A k \in 1..Len(w) : At(s, i + k - 1) = w[k]

RECURSIVE ParseValue(_, _)
RECURSIVE ParseMembers(_, _, _)
RECURSIVE ParseElements(_, _, _)

\* The members of an object after "{" or ","; i is at the key's quote.
ParseMembers(s, i, acc) ==
  IF At(s, i) # QUOTE THEN Fail
  ELSE Bind(ParseChars(s, i + 1, <<>>), LAMBDA key :
    IF ~key.ok THEN Fail
    ELSE Bind(SkipWs(s, key.p), LAMBDA c :
      IF At(s, c) # ":" THEN Fail
      ELSE Bind(ParseValue(s, SkipWs(s, c + 1)), LAMBDA val :
        IF ~val.ok THEN Fail
        ELSE Bind(SkipWs(s, val.p), LAMBDA q :
          IF At(s, q) = "}" THEN Ok(Obj(Append(acc, KV(key.v.s, val.v))), q + 1)
          ELSE IF At(s, q) = ","
            THEN ParseMembers(s, SkipWs(s, q + 1), Append(acc, KV(key.v.s, val.v)))
          ELSE Fail))))

ParseElements(s, i, acc) ==
  Bind(ParseValue(s, i), LAMBDA val :
    IF ~val.ok THEN Fail
    ELSE Bind(SkipWs(s, val.p), LAMBDA q :
      IF At(s, q) = "]" THEN Ok(Arr(Append(acc, val.v)), q + 1)
      ELSE IF At(s, q) = "," THEN ParseElements(s, SkipWs(s, q + 1), Append(acc, val.v))
      ELSE Fail))

ParseValue(s, i) ==
  LET c == At(s, i) IN
  IF c = "{" THEN
    LET j == SkipWs(s, i + 1) IN
    IF At(s, j) = "}" THEN Ok(Obj(<<>>), j + 1) ELSE ParseMembers(s, j, <<>>)
  ELSE IF c = "[" THEN
    LET j == SkipWs(s, i + 1) IN
    IF At(s, j) = "]" THEN Ok(Arr(<<>>), j + 1) ELSE ParseElements(s, j, <<>>)
  ELSE IF c = QUOTE THEN ParseChars(s, i + 1, <<>>)
  ELSE IF c = "-" \/ c \in Digits THEN ParseNumber(s, i)
  ELSE IF Word(s, i, <<"t", "r", "u", "e">>) THEN Ok(Bool(TRUE), i + 4)
  ELSE IF Word(s, i, <<"f", "a", "l", "s", "e">>) THEN Ok(Bool(FALSE), i + 5)
  ELSE IF Word(s, i, <<"n", "u", "l", "l">>) THEN Ok(Null, i + 4)
  ELSE Fail

\* JSON.parse(text): [ok, v]; ok = FALSE is the SyntaxError.
JSONparse(text) ==
  Bind(ParseValue(text, SkipWs(text, 1)), LAMBDA r :
    IF r.ok /\ SkipWs(text, r.p) = Len(text) + 1 THEN r ELSE Fail)

\* JSON.stringify of a string: quotes, with the quote and the backslash escaped.
QuoteChar(c) ==
  IF c \in {QUOTE, BSLASH} THEN <<BSLASH, c>>
  ELSE IF c = CH_LF THEN <<BSLASH, "n">>
  ELSE <<c>>

QuoteChars(s) == Flatten([i \in 1..Len(s) |-> QuoteChar(s[i])])

RECURSIVE JSONstringify(_)
RECURSIVE StringifyMembers(_, _)
RECURSIVE StringifyElements(_)

\* Members whose value is undefined are left out.
StringifyMembers(kv, first) ==
  IF kv = <<>> THEN <<>>
  ELSE IF kv[1].v.t = "undef" THEN StringifyMembers(Tail(kv), first)
  ELSE (IF first THEN <<>> ELSE <<",">>) \o Quoted(QuoteChars(kv[1].k)) \o <<":">>
       \o JSONstringify(kv[1].v) \o StringifyMembers(Tail(kv), FALSE)

StringifyElements(a) ==
  IF a = <<>> THEN <<>>
  ELSE JSONstringify(IF a[1].t = "undef" THEN Null ELSE a[1])
       \o (IF Len(a) > 1 THEN <<",">> \o StringifyElements(Tail(a)) ELSE <<>>)

JSONstringify(v) ==
  CASE v.t = "null" -> <<"n", "u", "l", "l">>
    [] v.t = "nan" -> <<"n", "u", "l", "l">>
    [] v.t = "bool" -> ToStringJS(v)
    [] v.t = "num" -> NumToString(v)
    [] v.t = "str" -> Quoted(QuoteChars(v.s))
    [] v.t = "obj" -> <<"{">> \o StringifyMembers(v.kv, TRUE) \o <<"}">>
    [] v.t = "arr" -> <<"[">> \o StringifyElements(v.a) \o <<"]">>

(***************************************************************************)
(* The literals of the pipeline (App.tsx lines 775-913)                     *)
(***************************************************************************)
K_offer == <<"o", "f", "f", "e", "r">>
K_from == <<"f", "r", "o", "m">>
K_to == <<"t", "o">>
K_fromAsset == <<"f", "r", "o", "m", "A", "s", "s", "e", "t">>
K_fromAmount == <<"f", "r", "o", "m", "A", "m", "o", "u", "n", "t">>
K_toAsset == <<"t", "o", "A", "s", "s", "e", "t">>
K_toAmount == <<"t", "o", "A", "m", "o", "u", "n", "t">>
K_symbol == <<"s", "y", "m", "b", "o", "l">>
K_asset == <<"a", "s", "s", "e", "t">>
K_amount == <<"a", "m", "o", "u", "n", "t">>
K_timestamp == <<"t", "i", "m", "e", "s", "t", "a", "m", "p">>
K_id == <<"i", "d">>
K_type == <<"t", "y", "p", "e">>
K_maker == <<"m", "a", "k", "e", "r">>
K_clientId == <<"c", "l", "i", "e", "n", "t", "I", "d">>
S_Unknown == <<"U", "n", "k", "n", "o", "w", "n">>
S_QMark == <<"?">>
S_NA == <<"N", "/", "A">>
S_Zero == <<"0">>
S_NaN == <<"N", "a", "N">>

(***************************************************************************)
(* Offer classifier (App.tsx lines 773-791)                                *)
(***************************************************************************)
\* The structural rule without its test of "timestamp".
StructuralRule_noTimestamp(payloadText) ==
  /\ includes(payloadText, Quoted(K_fromAsset))
  /\ includes(payloadText, Quoted(K_fromAmount))
  /\ includes(payloadText, Quoted(K_toAsset))
  /\ includes(payloadText, Quoted(K_toAmount))
  /\ ~includes(payloadText, Quoted(K_offer))
  /\ ~includes(payloadText, Quoted(K_id))
  /\ ~includes(payloadText, Quoted(K_type))
  /\ ~includes(payloadText, Quoted(K_maker))
  /\ ~includes(payloadText, Quoted(K_clientId))

\* The message structure suggests the application's own simple format.
StructuralRule(payloadText) ==
  /\ includes(payloadText, Quoted(K_fromAsset))
  /\ includes(payloadText, Quoted(K_fromAmount))
  /\ includes(payloadText, Quoted(K_toAsset))
  /\ includes(payloadText, Quoted(K_toAmount))
  /\ includes(payloadText, Quoted(K_timestamp))
  /\ ~includes(payloadText, Quoted(K_offer))
  /\ ~includes(payloadText, Quoted(K_id))
  /\ ~includes(payloadText, Quoted(K_type))
  /\ ~includes(payloadText, Quoted(K_maker))
  /\ ~includes(payloadText, Quoted(K_clientId))

\* The classifier with the foreign markers vetoing the handle rules too.
isMyOffer_markersVeto(payloadText, username) ==
  /\ ~includes(payloadText, Quoted(K_offer))
  /\ ~includes(payloadText, Quoted(K_id))
  /\ ~includes(payloadText, Quoted(K_type))
  /\ ~includes(payloadText, Quoted(K_maker))
  /\ ~includes(payloadText, Quoted(K_clientId))
  /\ \/ includes(payloadText, Quoted(username))
     \/ startsWith(payloadText, username \o <<":">>)
     \/ /\ includes(payloadText, Quoted(K_fromAsset))
        /\ includes(payloadText, Quoted(K_fromAmount))
        /\ includes(payloadText, Quoted(K_toAsset))
        /\ includes(payloadText, Quoted(K_toAmount))
        /\ includes(payloadText, Quoted(K_timestamp))

\* The classifier with the handle rules only.
isMyOffer_handleOnly(payloadText, username) ==
  \/ includes(payloadText, Quoted(username))
  \/ includes(payloadText, Quoted(username) \o <<":">>)
  \/ startsWith(payloadText, username \o <<":">>)

isMyOffer(payloadText, username) ==
  \/ includes(payloadText, Quoted(username))
  \/ includes(payloadText, Quoted(username) \o <<":">>)
  \/ startsWith(payloadText, username \o <<":">>)
  \/ StructuralRule(payloadText)

(***************************************************************************)
(* Rate (App.tsx lines 911-913 and 982-992)                                *)
(***************************************************************************)
\* x > 0 on numbers; false for NaN.
GtZero(x) == x.t = "num" /\ x.m > 0

\* (t / f).toFixed(d) for finite t and f > 0: the quotient rounded to d
\* decimals, half away from zero, with the sign of t.
toFixedQuot(t, f, d) ==
  Bind((IF t.m < 0 THEN -t.m ELSE t.m) * Pow10(f.e) * Pow10(d), LAMBDA a :
  Bind(f.m * Pow10(t.e), LAMBDA b :
  Bind(NatDigits((a \div b) + (IF 2 * (a % b) >= b THEN 1 ELSE 0)), LAMBDA ds :
  Bind(IF Len(ds) > d THEN ds ELSE [i \in 1..(d + 1 - Len(ds)) |-> "0"] \o ds,
       LAMBDA padded :
    (IF t.m < 0 THEN <<"-">> ELSE <<>>)
      \o SubSeq(padded, 1, Len(padded) - d) \o <<".">>
      \o SubSeq(padded, Len(padded) - d + 1, Len(padded))))))

RateDecimals == 4

\* Infinity and -Infinity.
Infinity(negative) == [t |-> "inf", negative |-> negative]

\* toAmount / fromAmount for finite numbers and fromAmount > 0, kept exact as
\* n / d with d > 0.  (The numbers of the model are far from the range where
\* the quotient of two doubles overflows.)
Quotient(toAmount, fromAmount) ==
  [t |-> "quot", n |-> toAmount.m * Pow10(fromAmount.e),
                 d |-> fromAmount.m * Pow10(toAmount.e)]

\* isFinite(x), for x a number, a quotient or undefined.
isFinite(x) == x.t \in {"num", "quot"}

\* x <= 0 on numbers; false for NaN.
LeZero(x) == (x.t = "num" /\ x.m <= 0) \/ (x.t = "inf" /\ x.negative)

\* The decimals without the case of the rates below 0.0001.
DecimalsOfRate_noTiny(rate) ==
  IF rate.n >= 1000 * rate.d THEN 2
  ELSE IF rate.n >= 100 * rate.d THEN 3
  ELSE 4

\* AssetIcon.tsx lines 71-75: the decimals by the magnitude of the rate.
DecimalsOfRate(rate) ==
  IF rate.n >= 1000 * rate.d THEN 2
  ELSE IF rate.n >= 100 * rate.d THEN 3
  ELSE IF rate.n * 10000 < rate.d THEN 8
  ELSE 4

\* calculateRate without the test of a falsy toAmount.
calculateRate_noToGuard(fromAmount, toAmount) ==
  IF \/ ~Truthy(fromAmount)
     \/ ~isFinite(fromAmount) \/ ~isFinite(toAmount)
     \/ LeZero(fromAmount)
    THEN S_NA
  ELSE toFixedQuot(toAmount, fromAmount, DecimalsOfRate(Quotient(toAmount, fromAmount)))

\* AssetIcon.tsx lines 60-77.
calculateRate(fromAmount, toAmount) ==
  IF \/ ~Truthy(fromAmount) \/ ~Truthy(toAmount)
     \/ ~isFinite(fromAmount) \/ ~isFinite(toAmount)
     \/ LeZero(fromAmount)
    THEN S_NA
  ELSE Bind(Quotient(toAmount, fromAmount), LAMBDA rate :
    IF ~isFinite(rate) THEN S_NA
    ELSE toFixedQuot(toAmount, fromAmount, DecimalsOfRate(rate)))

(***************************************************************************)
(* Debug-mode extraction (App.tsx lines 794-931)                           *)
(*                                                                         *)
(* A step of the callback that can throw returns [throws, v]; the          *)
(* callback's catch turns a throw into null (lines 1005-1008).             *)
(***************************************************************************)
Threw == [throws |-> TRUE, v |-> Undefined]
Val(v) == [throws |-> FALSE, v |-> v]

\* x.toString().toUpperCase()
UpperString(x) == IF ToStringThrows(x) THEN Threw ELSE Val(toUpperCase(ToStringJS(x)))

\* Lines 819-828: an asset of the nested shape, a string or an object with a
\* symbol; "Unknown" is kept when the asset is falsy.
DebugSymbolAsset(a) ==
  IF ~Truthy(a) THEN Val(S_Unknown)
  ELSE IF TypeofObject(a) /\ Truthy(Get(a, K_symbol)) THEN UpperString(Get(a, K_symbol))
  ELSE UpperString(a)

\* Lines 840-845 and 855-860.
DebugPlainAsset(a) == IF ~Truthy(a) THEN Val(S_Unknown) ELSE UpperString(a)

\* Lines 831-836: parseFloat(x.toString()) || x; "?" is kept when the amount
\* is undefined or null.
DebugAmount(x) ==
  IF x.t \in {"undef", "null"} THEN Val(Str(S_QMark))
  ELSE IF ToStringThrows(x) THEN Threw
  ELSE Bind(parseFloat(ToStringJS(x)), LAMBDA f : Val(IF Truthy(f) THEN f ELSE x))

Fields(fa, fm, ta, tm) ==
  [ throws |-> fa.throws \/ fm.throws \/ ta.throws \/ tm.throws,
    fromAsset |-> fa.v, fromAmount |-> fm.v, toAsset |-> ta.v, toAmount |-> tm.v ]

\* Lines 812-867: the three shapes, in order.
DebugShapes(parsedData) ==
  IF Truthy(Get(parsedData, K_offer)) THEN
    LET offer == Get(parsedData, K_offer) IN
    Fields(DebugSymbolAsset(Get(offer, K_fromAsset)), DebugAmount(Get(offer, K_fromAmount)),
           DebugSymbolAsset(Get(offer, K_toAsset)), DebugAmount(Get(offer, K_toAmount)))
  ELSE IF Truthy(Get(parsedData, K_from)) /\ Truthy(Get(parsedData, K_to)) THEN
    LET from == Get(parsedData, K_from)
        to == Get(parsedData, K_to) IN
    Fields(DebugPlainAsset(Get(from, K_asset)), DebugAmount(Get(from, K_amount)),
           DebugPlainAsset(Get(to, K_asset)), DebugAmount(Get(to, K_amount)))
  ELSE
    Fields(DebugPlainAsset(Get(parsedData, K_fromAsset)),
           DebugAmount(Get(parsedData, K_fromAmount)),
           DebugPlainAsset(Get(parsedData, K_toAsset)),
           DebugAmount(Get(parsedData, K_toAmount)))

\* assetRegex, /(BTC|ETH|USDC|VERI|bitcoin|ethereum|Bitcoin|Ethereum)/gi: the
\* alternatives in the order the regular expression tries them, compared
\* without case.
AssetAlternatives ==
  << <<"B", "T", "C">>, <<"E", "T", "H">>, <<"U", "S", "D", "C">>, <<"V", "E", "R", "I">>,
     <<"B", "I", "T", "C", "O", "I", "N">>, <<"E", "T", "H", "E", "R", "E", "U", "M">>,
     <<"B", "I", "T", "C", "O", "I", "N">>, <<"E", "T", "H", "E", "R", "E", "U", "M">> >>

AltMatchesAt(text, i, alt) ==
  /\ i + Len(alt) - 1 <= Len(text)
  /\ \A k \in 1..Len(alt) : UpperChar(text[i + k - 1]) = alt[k]

\* payloadText.match(assetRegex): the matches from index i on, left to right,
\* each the first alternative that matches where the scan stands.
RECURSIVE MatchAssets(_, _)
MatchAssets(text, i) ==
  IF i > Len(text) THEN <<>>
  ELSE IF \E a \in 1..Len(AssetAlternatives) : AltMatchesAt(text, i, AssetAlternatives[a]) THEN
    LET a == CHOOSE a \in 1..Len(AssetAlternatives) :
               /\ AltMatchesAt(text, i, AssetAlternatives[a])
               /\ \A b \in 1..(a - 1) : ~AltMatchesAt(text, i, AssetAlternatives[b])
        n == Len(AssetAlternatives[a])
    IN <<SubSeq(text, i, i + n - 1)>> \o MatchAssets(text, i + n)
  ELSE MatchAssets(text, i + 1)

\* payloadText.match(numberRegex), /\d+\.?\d*/g.
RECURSIVE MatchNumbers(_, _)
MatchNumbers(text, i) ==
  IF i > Len(text) THEN <<>>
  ELSE IF text[i] \in Digits THEN
    LET j == DigitRun(text, i)
        k == IF At(text, j) = "." THEN DigitRun(text, j + 1) ELSE j
    IN <<SubSeq(text, i, k - 1)>> \o MatchNumbers(text, k)
  ELSE MatchNumbers(text, i + 1)

\* parseFloat(foundNumbers[n]) || foundNumbers[n]
ScrapedAmount(found) ==
  Bind(parseFloat(found), LAMBDA f : IF Truthy(f) THEN f ELSE Str(found))

\* The second of the distinct elements of a sequence, or a default.
SecondDistinct(seq, default) ==
  IF \E i \in 1..Len(seq) : seq[i] # seq[1]
    THEN seq[CHOOSE i \in 1..Len(seq) :
               seq[i] # seq[1] /\ \A j \in 1..(i - 1) : seq[j] = seq[1]]
    ELSE default

\* The raw-text fallback with a repeated ticker skipped for toAsset.
DebugScrape_distinct(payloadText) ==
  LET found == MatchAssets(payloadText, 1)
      foundAssets == [i \in 1..Len(found) |-> toUpperCase(found[i])]
      foundNumbers == MatchNumbers(payloadText, 1)
  IN [ throws |-> FALSE,
       fromAsset |-> IF Len(foundAssets) >= 1 THEN foundAssets[1] ELSE S_Unknown,
       toAsset |-> SecondDistinct(foundAssets, S_Unknown),
       fromAmount |-> IF Len(foundNumbers) >= 1 THEN ScrapedAmount(foundNumbers[1])
                      ELSE Str(S_QMark),
       toAmount |-> IF Len(foundNumbers) >= 2 THEN ScrapedAmount(foundNumbers[2])
                    ELSE Str(S_QMark) ]

\* Lines 869-889: the raw-text fallback.
DebugScrape(payloadText) ==
  Bind(MatchAssets(payloadText, 1), LAMBDA foundAssets :
  Bind(MatchNumbers(payloadText, 1), LAMBDA foundNumbers :
    [ throws |-> FALSE,
      fromAsset |-> IF Len(foundAssets) >= 1 THEN toUpperCase(foundAssets[1]) ELSE S_Unknown,
      toAsset |-> IF Len(foundAssets) >= 2 THEN toUpperCase(foundAssets[2]) ELSE S_Unknown,
      fromAmount |-> IF Len(foundNumbers) >= 1 THEN ScrapedAmount(foundNumbers[1])
                     ELSE Str(S_QMark),
      toAmount |-> IF Len(foundNumbers) >= 2 THEN ScrapedAmount(foundNumbers[2])
                   ELSE Str(S_QMark) ]))

\* The extraction with the raw text scraped whenever the value parsed is of
\* none of the three shapes.
DebugFields_scrapeUnshaped(parsed, payloadText) ==
  IF /\ parsed.ok /\ Truthy(parsed.v)
     /\ \/ Truthy(Get(parsed.v, K_offer))
        \/ Truthy(Get(parsed.v, K_from)) /\ Truthy(Get(parsed.v, K_to))
        \/ \E k \in {K_fromAsset, K_fromAmount, K_toAsset, K_toAmount} : HasOwn(parsed.v, k)
    THEN DebugShapes(parsed.v)
    ELSE DebugScrape(payloadText)

\* The extraction without the raw-text fallback: the placeholders are kept
\* when the text is not JSON.
DebugFields_noFallback(parsed, payloadText) ==
  IF parsed.ok /\ Truthy(parsed.v) THEN DebugShapes(parsed.v)
  ELSE Fields(Val(S_Unknown), Val(Str(S_QMark)), Val(S_Unknown), Val(Str(S_QMark)))

\* Line 812: the shapes are read when the text is JSON and the value parsed
\* is truthy; the raw text is scraped otherwise.
DebugFields(parsed, payloadText) ==
  IF parsed.ok /\ Truthy(parsed.v) THEN DebugShapes(parsed.v) ELSE DebugScrape(payloadText)

\* Lines 911-912: typeof x === 'number' ? x : parseFloat(x.toString()) || 0
DebugNum(x) ==
  IF IsNumber(x) THEN x
  ELSE Bind(parseFloat(ToStringJS(x)), LAMBDA f : IF Truthy(f) THEN f ELSE IntNum(0))

\* Line 913.
DebugRate(fromAmount, toAmount) ==
  Bind(DebugNum(fromAmount), LAMBDA numFromAmount :
  Bind(DebugNum(toAmount), LAMBDA numToAmount :
    IF GtZero(numFromAmount) /\ GtZero(numToAmount)
      THEN toFixedQuot(numToAmount, numFromAmount, RateDecimals)
      ELSE S_NA))

NoOffer == [t |-> "null"]

\* The key made of the clock for every message.
OfferKey_clock(msg, index, now) == NatDigits(now) \o <<"-">> \o NatDigits(index)

\* The key without the index.
OfferKey_timeOnly(msg, index, now) ==
  (IF msg.timestamp.t = "undef" THEN NatDigits(now) ELSE msg.timestamp.s) \o <<"-">>

\* `${msg.timestamp ?? Date.now()}-${index}`
OfferKey(msg, index, now) ==
  (IF msg.timestamp.t = "undef" THEN NatDigits(now) ELSE msg.timestamp.s)
    \o <<"-">> \o NatDigits(index)

\* Lines 794-931.  The asset icons (fromDisplay, toDisplay) are rendering
\* only and are computed from strings, so they cannot throw; they are left
\* out of the offer.
DebugOffer(msg, index, payloadText, username, now) ==
  Bind(JSONparse(payloadText), LAMBDA parsed :
  Bind(DebugFields(parsed, payloadText), LAMBDA f :
    IF f.throws THEN NoOffer
    ELSE [ t |-> "offer",
           key |-> OfferKey(msg, index, now),
           fromAsset |-> f.fromAsset,
           fromAmount |-> f.fromAmount,
           toAsset |-> f.toAsset,
           toAmount |-> f.toAmount,
           timestamp |-> msg.timestamp,
           rate |-> DebugRate(f.fromAmount, f.toAmount),
           rawMessage |-> payloadText,
           isDebugMode |-> TRUE,
           isValidJSON |-> parsed.ok,
           originalData |-> IF parsed.ok THEN parsed.v ELSE Null,
           isMyOffer |-> isMyOffer(payloadText, username) ]))

(***************************************************************************)
(* Normal-mode extraction (App.tsx lines 934-1001)                         *)
(***************************************************************************)
\* The asset taken as it is, its symbol not looked at.
NormalSymbolAsset_noSymbol(a) == IF a.t = "null" THEN Threw ELSE Val(a)

\* Lines 947-952: typeof a === 'object' && a.symbol ? a.symbol : a.  The
\* access a.symbol throws when a is null.
NormalSymbolAsset(a) ==
  IF a.t = "null" THEN Threw
  ELSE IF TypeofObject(a) /\ Truthy(Get(a, K_symbol)) THEN Val(Get(a, K_symbol))
  ELSE Val(a)

\* The shapes with from/to tried before the nested offer.
NormalShapes_fromToFirst(offer) ==
  IF GetThrows(offer) THEN
    Fields(Threw, Threw, Threw, Threw)
  ELSE IF Truthy(Get(offer, K_from)) /\ Truthy(Get(offer, K_to)) THEN
    Fields(Val(Get(Get(offer, K_from), K_asset)), Val(Get(Get(offer, K_from), K_amount)),
           Val(Get(Get(offer, K_to), K_asset)), Val(Get(Get(offer, K_to), K_amount)))
  ELSE IF Truthy(Get(offer, K_offer)) THEN
    LET offerData == Get(offer, K_offer) IN
    Fields(NormalSymbolAsset(Get(offerData, K_fromAsset)), Val(Get(offerData, K_fromAmount)),
           NormalSymbolAsset(Get(offerData, K_toAsset)), Val(Get(offerData, K_toAmount)))
  ELSE
    Fields(Val(Get(offer, K_fromAsset)), Val(Get(offer, K_fromAmount)),
           Val(Get(offer, K_toAsset)), Val(Get(offer, K_toAmount)))

\* Lines 945-965: the three shapes, in order; offer.offer throws when the
\* value parsed is null.
NormalShapes(offer) ==
  IF GetThrows(offer) THEN
    Fields(Threw, Threw, Threw, Threw)
  ELSE IF Truthy(Get(offer, K_offer)) THEN
    LET offerData == Get(offer, K_offer) IN
    Fields(NormalSymbolAsset(Get(offerData, K_fromAsset)), Val(Get(offerData, K_fromAmount)),
           NormalSymbolAsset(Get(offerData, K_toAsset)), Val(Get(offerData, K_toAmount)))
  ELSE IF Truthy(Get(offer, K_from)) /\ Truthy(Get(offer, K_to)) THEN
    Fields(Val(Get(Get(offer, K_from), K_asset)), Val(Get(Get(offer, K_from), K_amount)),
           Val(Get(Get(offer, K_to), K_asset)), Val(Get(Get(offer, K_to), K_amount)))
  ELSE
    Fields(Val(Get(offer, K_fromAsset)), Val(Get(offer, K_fromAmount)),
           Val(Get(offer, K_toAsset)), Val(Get(offer, K_toAmount)))

\* The test x !== 0 left out of the exclusion.
IsNotZero_always(x) == TRUE

\* x !== 0
IsNotZero(x) == ~(x.t = "num" /\ x.m = 0)

\* The exclusion with the tests of the two assets only.
NormalExcluded_assetsOnly(f) ==
  \/ ~Truthy(f.fromAsset)
  \/ ~Truthy(f.toAsset)

\* Line 967.
NormalExcluded(f) ==
  \/ ~Truthy(f.fromAsset)
  \/ ~Truthy(f.toAsset)
  \/ (~Truthy(f.fromAmount) /\ IsNotZero(f.fromAmount))
  \/ (~Truthy(f.toAmount) /\ IsNotZero(f.toAmount))

\* The rate of normal mode with the decimals chosen by the magnitude of the
\* quotient, as calculateRate chooses them.
NormalRate_byMagnitude(numFromAmount, numToAmount) ==
  IF GtZero(numFromAmount)
    THEN IF numToAmount.t = "nan" THEN S_NaN
         ELSE toFixedQuot(numToAmount, numFromAmount,
                          DecimalsOfRate(Quotient(numToAmount, numFromAmount)))
    ELSE S_Zero

\* Line 992: numFromAmount > 0 ? (numToAmount / numFromAmount).toFixed(4) : '0'
NormalRate(numFromAmount, numToAmount) ==
  IF GtZero(numFromAmount)
    THEN IF numToAmount.t = "nan" THEN S_NaN
         ELSE toFixedQuot(numToAmount, numFromAmount, RateDecimals)
    ELSE S_Zero

NormalOffer(msg, index, payloadText, username, now) ==
  Bind(JSONparse(payloadText), LAMBDA parsed :
    IF ~parsed.ok THEN NoOffer
    ELSE Bind(NormalShapes(parsed.v), LAMBDA f :
      IF f.throws THEN NoOffer
      ELSE IF NormalExcluded(f) THEN NoOffer
      ELSE IF \/ ToStringThrows(f.fromAmount) \/ ToStringThrows(f.toAmount)
              \/ ToStringThrows(f.fromAsset) \/ ToStringThrows(f.toAsset) THEN NoOffer
      ELSE Bind(parseFloat(ToStringJS(f.fromAmount)), LAMBDA numFromAmount :
           Bind(parseFloat(ToStringJS(f.toAmount)), LAMBDA numToAmount :
             [ t |-> "offer",
               key |-> OfferKey(msg, index, now),
               fromAsset |-> toUpperCase(ToStringJS(f.fromAsset)),
               fromAmount |-> numFromAmount,
               toAsset |-> toUpperCase(ToStringJS(f.toAsset)),
               toAmount |-> numToAmount,
               timestamp |-> msg.timestamp,
               rate |-> NormalRate(numFromAmount, numToAmount),
               rawMessage |-> payloadText,
               isDebugMode |-> FALSE,
               isValidJSON |-> TRUE,
               originalData |-> parsed.v,
               isMyOffer |-> isMyOffer(payloadText, username) ]))))

(***************************************************************************)
(* The extraction pass (App.tsx lines 764-1013)                            *)
(***************************************************************************)
\* The callback with the debug branch taken for every message, with or
\* without a timestamp.
ProcessMessage_anyTimestamp(msg, index, debugMode, username, now) ==
  IF AtobThrows(msg.payload) THEN NoOffer
  ELSE Bind(TextDecode(bytesFromBase64(msg.payload)), LAMBDA payloadText :
    IF debugMode
      THEN DebugOffer(msg, index, payloadText, username, now)
      ELSE NormalOffer(msg, index, payloadText, username, now))

\* The callback of relevantMessages.map: the offer of one message, or null.
\* index counts from 0.
ProcessMessage(msg, index, debugMode, username, now) ==
  IF AtobThrows(msg.payload) THEN NoOffer
  ELSE Bind(TextDecode(bytesFromBase64(msg.payload)), LAMBDA payloadText :
    IF debugMode /\ Truthy(msg.timestamp)
      THEN DebugOffer(msg, index, payloadText, username, now)
    ELSE IF ~debugMode
      THEN NormalOffer(msg, index, payloadText, username, now)
    ELSE NoOffer)

\* The messages of every topic, once a community is selected.
RelevantMessages_everyTopic(messages, community) ==
  SelectSeq(messages, LAMBDA msg : community.t # "undef")

\* msg.contentTopic === community?.contentTopic
RelevantMessages(messages, community) ==
  SelectSeq(messages, LAMBDA msg :
    community.t # "undef" /\ msg.contentTopic = community.contentTopic)

\* The pass ended by the first message that makes no offer: the offers of
\* the messages before it.
SwapOffers_abortOnFailure(messages, community, debugMode, username, now) ==
  LET relevantMessages == RelevantMessages(messages, community)
      mapped == [i \in 1..Len(relevantMessages) |->
                   ProcessMessage(relevantMessages[i], i - 1, debugMode, username, now)]
  IN SelectSeq([i \in 1..Len(mapped) |->
                  IF \E j \in 1..i : mapped[j].t # "offer" THEN NoOffer ELSE mapped[i]],
               LAMBDA o : o.t = "offer")

\* relevantMessages.map(...).filter(Boolean)
SwapOffers(messages, community, debugMode, username, now) ==
  LET relevantMessages == RelevantMessages(messages, community)
      mapped == [i \in 1..Len(relevantMessages) |->
                   ProcessMessage(relevantMessages[i], i - 1, debugMode, username, now)]
  IN SelectSeq(mapped, LAMBDA o : o.t = "offer")

\* Lines 1015-1017: the offers of the active tab; "All" leaves out my offers.
filteredOffers(offers, tab) ==
  IF tab = "mine" THEN SelectSeq(offers, LAMBDA offer : offer.isMyOffer)
  ELSE SelectSeq(offers, LAMBDA offer : ~offer.isMyOffer)

\* The count of the label "My Offers" taken over every offer.
myOffersCount_all(offers) == Len(offers)

\* Lines 1020-1021: the counts of the tab labels.
myOffersCount(offers) == Len(SelectSeq(offers, LAMBDA o : o.isMyOffer))
othersOffersCount(offers) == Len(SelectSeq(offers, LAMBDA o : ~o.isMyOffer))

(***************************************************************************)
(* fetchAllMessages (App.tsx lines 1310-1338)                              *)
(***************************************************************************)
\* a.timestamp ? BigInt(a.timestamp) : BigInt(0), for a timestamp of digits.
TimeOf(msg) ==
  IF Truthy(msg.timestamp) THEN DigitsVal(msg.timestamp.s, 1, Len(msg.timestamp.s) + 1) ELSE 0

\* newMessages.sort((a, b) => Number(timeB - timeA)): newest first; the sort
\* is stable.
RECURSIVE InsertByTime(_, _)
InsertByTime(msg, sorted) ==
  IF sorted = <<>> THEN <<msg>>
  ELSE IF TimeOf(sorted[1]) < TimeOf(msg) THEN <<msg>> \o sorted
  ELSE <<sorted[1]>> \o InsertByTime(msg, Tail(sorted))

RECURSIVE SortNewestFirst(_)
SortNewestFirst(msgs) ==
  IF msgs = <<>> THEN <<>>
  ELSE LET n == Len(msgs) IN InsertByTime(msgs[n], SortNewestFirst(SubSeq(msgs, 1, n - 1)))

\* The store's answer: its messages on the content topics asked for.
StoreAnswer(store, communities) ==
  SelectSeq(store, LAMBDA msg :
    \E i \in 1..Len(communities) : communities[i].contentTopic = msg.contentTopic)

(***************************************************************************)
(* The inputs of the model                                                 *)
(***************************************************************************)
T_btc == <<"b", "t", "c">>
T_eth == <<"e", "t", "h">>
T_USDC == <<"U", "S", "D", "C">>
T_4800 == <<"4", "8", "0", "0">>
T_1p5 == <<"1", ".", "5">>
T_abc == <<"a", "b", "c">>
U_alice == <<"a", "l", "i", "c", "e">>
TS_17 == <<"1", "7">>
T_BTC == <<"B", "T", "C">>
T_usdc == <<"u", "s", "d", "c">>
T_veri == <<"v", "e", "r", "i">>
T_ethereum == <<"e", "t", "h", "e", "r", "e", "u", "m">>
T_1 == <<"1">>
T_2 == <<"2">>
T_9999 == <<"9", "9", "9", "9">>
T_x1 == <<"x", "1">>
T_swap == <<"s", "w", "a", "p">>
T_bob == <<"b", "o", "b">>
T_user == <<"u", "s", "e", "r">>
T_note == <<"n", "o", "t", "e">>
T_scrape == <<"B", "T", "C", " ", "2", " ", "f", "o", "r", " ", "U", "S", "D", "C", " ", "3">>

T_swap_offers == <<"s", "w", "a", "p", "-", "o", "f", "f", "e", "r", "s">>
T_chat == <<"c", "h", "a", "t">>
SwapOffersTopic ==
  <<"/", "s", "w", "a", "p", "-", "o", "f", "f", "e", "r", "s", "/", "1", "/", "o", "f", "f", "e", "r", "/", "p", "r", "o", "t", "o">>
ChatTopic ==
  <<"/", "w", "a", "k", "u", "/", "1", "/", "c", "h", "a", "t", "/", "p", "r", "o", "t", "o">>

Community(name, topic) == [t |-> "community", name |-> name, contentTopic |-> topic]
SwapCommunity == Community(T_swap_offers, SwapOffersTopic)
ChatCommunity == Community(T_chat, ChatTopic)

\* The values an asset member and an amount member take in the payloads.
AssetVals ==
  { Undefined, Null, Str(<<>>), Str(T_btc), Obj(<<KV(K_symbol, Str(T_eth))>>), Obj(<<>>),
    Obj(<<KV(K_symbol, IntNum(7))>>), Obj(<<KV(K_toString, IntNum(1))>>) }

AmountVals ==
  { Undefined, Null, Str(<<>>), Str(T_1p5), IntNum(2), IntNum(0), Str(T_abc), Str(S_Zero),
    IntNum(-3) }

Shapes == {"nested", "fromto", "flat"}

\* Date.now() and the timestamps are scaled down to fit the integers of the
\* model checker; only their digits and their order matter to the pipeline.
ClockStart == 1700
AppTimestamp == IntNum(ClockStart)

\* A payload of one shape with the four members given.
ShapeValue(shape, fa, fm, ta, tm) ==
  CASE shape = "nested" ->
         Obj(<<KV(K_offer, Obj(<<KV(K_fromAsset, fa), KV(K_fromAmount, fm),
                                 KV(K_toAsset, ta), KV(K_toAmount, tm)>>))>>)
    [] shape = "fromto" ->
         Obj(<<KV(K_from, Obj(<<KV(K_asset, fa), KV(K_amount, fm)>>)),
               KV(K_to, Obj(<<KV(K_asset, ta), KV(K_amount, tm)>>))>>)
    [] shape = "flat" ->
         Obj(<<KV(K_fromAsset, fa), KV(K_fromAmount, fm), KV(K_toAsset, ta),
               KV(K_toAmount, tm), KV(K_timestamp, AppTimestamp)>>)

\* What the model knows of a message it hands to the relay: how the payload
\* was made (fam, shape), whether its text is JSON (kind) and of which value
\* (val), the words of a free text (words), the text, and the envelope.
Input(kind, fam, shape, val, words, text) ==
  [ kind |-> kind, fam |-> fam, shape |-> shape, val |-> val, words |-> words,
    text |-> text, payload |-> encodeBase64Utf8(text),
    topic |-> SwapOffersTopic, timestamp |-> Str(TS_17) ]

JsonInput(fam, shape, val) == Input("json", fam, shape, val, <<>>, JSONstringify(val))

\* One varied side, the other side a plain ticker and a numeric string.
FieldInputs ==
  { JsonInput("fields", sh, ShapeValue(sh, a, m, Str(T_USDC), Str(T_4800))) :
      sh \in Shapes, a \in AssetVals, m \in AmountVals }
  \cup
  { JsonInput("fields", sh, ShapeValue(sh, Str(T_btc), IntNum(2), a, m)) :
      sh \in Shapes, a \in AssetVals, m \in AmountVals }

\* The application's own flat offer (sendSwapOffer, lines 1466-1472), with one
\* member left out, a member of a foreign schema added, and the handle
\* "alice" as a value or as a key.
FlatMembers ==
  << KV(K_fromAsset, Str(T_BTC)), KV(K_fromAmount, IntNum(1)), KV(K_toAsset, Str(T_USDC)),
     KV(K_toAmount, IntNum(65000)), KV(K_timestamp, AppTimestamp) >>

Dropped == {<<>>, K_fromAsset, K_fromAmount, K_toAsset, K_toAmount, K_timestamp}

ForeignMembers ==
  { <<>>, <<KV(K_offer, Null)>>, <<KV(K_id, Str(T_x1))>>, <<KV(K_type, Str(T_swap))>>,
    <<KV(K_maker, Str(T_bob))>>, <<KV(K_clientId, IntNum(7))>> }

HandleMembers == { <<>>, <<KV(T_user, Str(U_alice))>>, <<KV(U_alice, IntNum(1))>> }

ClassInputs ==
  { JsonInput("class", "flat",
      Obj(SelectSeq(FlatMembers, LAMBDA m : m.k # d) \o f \o h)) :
      d \in Dropped, f \in ForeignMembers, h \in HandleMembers }

\* Payloads that hold members of several shapes at once; each shape carries
\* its own tickers and amounts.
NestedPart == Obj(<<KV(K_fromAsset, Obj(<<KV(K_symbol, Str(T_eth))>>)), KV(K_fromAmount, Str(T_1p5)),
                    KV(K_toAsset, Str(T_usdc)), KV(K_toAmount, Str(T_4800))>>)
FromPart == Obj(<<KV(K_asset, Str(T_BTC)), KV(K_amount, Str(T_1))>>)
ToPart == Obj(<<KV(K_asset, Str(T_USDC)), KV(K_amount, Str(T_9999))>>)
FlatPart == << KV(K_fromAsset, Str(T_veri)), KV(K_fromAmount, IntNum(3)),
               KV(K_toAsset, Str(T_btc)), KV(K_toAmount, IntNum(122)) >>

OfferMembers ==
  { <<>>, <<KV(K_offer, NestedPart)>>, <<KV(K_offer, Null)>>, <<KV(K_offer, IntNum(0))>>,
    <<KV(K_offer, Str(T_x1))>>, <<KV(K_offer, Obj(<<>>))>> }
FromToMembers ==
  { <<>>, <<KV(K_from, FromPart), KV(K_to, ToPart)>>, <<KV(K_from, FromPart)>>,
    <<KV(K_from, Null), KV(K_to, ToPart)>>, <<KV(K_from, Str(T_x1)), KV(K_to, IntNum(5))>> }
FlatOptions == {<<>>, FlatPart}

MixedInputs ==
  { JsonInput("mixed", "mixed", Obj(fl \o ft \o o)) :
      o \in OfferMembers, ft \in FromToMembers, fl \in FlatOptions }

\* JSON texts that are no object of a shape.
OtherValues ==
  { Null, IntNum(5), IntNum(0), Bool(TRUE), Bool(FALSE), Str(<<>>), Str(T_scrape),
    Arr(<<>>), Arr(<<Str(T_btc), IntNum(2)>>), Obj(<<>>), Obj(<<KV(T_note, Str(T_scrape))>>),
    Obj(<<KV(K_fromAsset, Str(<<CH_EACUTE, "t", "h">>)), KV(K_fromAmount, IntNum(2)),
          KV(K_toAsset, Str(T_USDC)), KV(K_toAmount, Str(T_4800))>>) }

OtherInputs == { JsonInput("other", "none", v) : v \in OtherValues }

\* Free texts: up to MaxWords words separated by one space, after an
\* optional chat prefix "alice:".
MaxWords == 3
Words == {T_BTC, T_eth, T_ethereum, T_2, T_1p5, S_Zero}
NumberWords == {T_2, T_1p5, S_Zero}

RECURSIVE JoinWords(_)
JoinWords(ws) ==
  IF ws = <<>> THEN <<>>
  ELSE IF Len(ws) = 1 THEN ws[1]
  ELSE ws[1] \o <<" ">> \o JoinWords(Tail(ws))

WordLists == UNION { [1..n -> Words] : n \in 0..MaxWords }

\* A lone number is a JSON text; every other text of the family is not.
TextInput(ws) ==
  IF Len(ws) = 1 /\ ws[1] \in NumberWords
    THEN Input("json", "text", "none", parseFloat(ws[1]), ws, ws[1])
    ELSE Input("text", "text", "none", Undefined, ws, JoinWords(ws))

TextInputs ==
  { TextInput(ws) : ws \in WordLists }
  \cup { TextInput(<<U_alice \o <<":">> >> \o ws) : ws \in WordLists }

\* Envelopes: a payload that is not base64, bytes that are not UTF-8, a
\* message without a timestamp or with an empty one, a message of another
\* content topic.
GoodFlat == JsonInput("envelope", "flat", Obj(FlatMembers))
GoodText == Input("text", "envelope", "none", Undefined, <<T_BTC, T_2, T_eth, T_1p5>>,
                  JoinWords(<<T_BTC, T_2, T_eth, T_1p5>>))

EnvelopeInputs ==
  { [GoodFlat EXCEPT !.kind = "bad64", !.payload = <<"@", "@", "@", "@">>],
    [GoodFlat EXCEPT !.kind = "bad64", !.payload = <<"e", "y", "J", "h", "I">>],
    [GoodText EXCEPT !.payload = <<"/", "w", "=", "=">>, !.text = <<CH_REPLACEMENT>>,
                     !.words = <<>>] }
  \cup { [i EXCEPT !.timestamp = ts] :
           i \in {GoodFlat, GoodText}, ts \in {Undefined, Str(<<>>), Str(TS_17)} }
  \cup { [i EXCEPT !.topic = ChatTopic] : i \in {GoodFlat, GoodText} }

Inputs == FieldInputs \cup ClassInputs \cup MixedInputs \cup OtherInputs \cup TextInputs
            \cup EnvelopeInputs

Usernames == {<<>>, U_alice}

Message(payload, topic, timestamp) ==
  [payload |-> payload, contentTopic |-> topic, timestamp |-> timestamp]

(***************************************************************************)
(* localStorage (App.tsx lines 1180-1194 and the handlers that write it)   *)
(***************************************************************************)
K_name == <<"n", "a", "m", "e">>
K_contentTopic == <<"c", "o", "n", "t", "e", "n", "t", "T", "o", "p", "i", "c">>

\* A CommunityMetadata as the value JSON.stringify is given.
CommunityValue(c) == Obj(<<KV(K_name, Str(c.name)), KV(K_contentTopic, Str(c.contentTopic))>>)
CommunityValues(joined) == Arr([i \in 1..Len(joined) |-> CommunityValue(joined[i])])

\* localStorage.setItem, removeItem and getItem; an item that is not stored
\* reads as null.
setItem_keepOld(storage, key, value) == storage
setItem(storage, key, value) == [storage EXCEPT ![key] = Str(value)]
removeItem(storage, key) == [storage EXCEPT ![key] = Null]
getItem(storage, key) == storage[key]

\* What the effect of lines 1180-1194 reads back from the storage: the parsed
\* "community" or undefined, the parsed "communities" or the empty list of
\* line 1149; an item that is null or the empty text is not parsed.
Stored(storage, key) == getItem(storage, key) \notin {Null, Str(<<>>)}
LoadedCommunity(storage) ==
  IF Stored(storage, "community") THEN JSONparse(getItem(storage, "community").s).v
  ELSE Undefined
LoadedCommunities(storage) ==
  IF Stored(storage, "communities") THEN JSONparse(getItem(storage, "communities").s).v
  ELSE Arr(<<>>)

EmptyStorage == [communities |-> Null, community |-> Null, messagesReceived |-> Null]

\* The storage of a browser in which the communities were joined and the
\* community was selected, before any poll has written its count.
StorageOf(joined, selected) ==
  [ communities |-> IF joined = <<>> THEN Null ELSE Str(JSONstringify(CommunityValues(joined))),
    community |-> IF selected = Undefined THEN Null
                  ELSE Str(JSONstringify(CommunityValue(selected))),
    messagesReceived |-> Null ]

(***************************************************************************)
(* The state machine                                                       *)
(***************************************************************************)
VARIABLES
  input,              \* what the model knows of the relay's payload
  store,              \* the messages the relay's store holds
  joinedCommunities,  \* useState, line 1149
  community,          \* useState, line 1148
  username,           \* useState, line 1145
  debugMode,          \* useState, line 1166
  messages,           \* useState, line 1147
  now,                \* Date.now()
  swapOffers,         \* the offers of the last render (line 767)
  rateCall,           \* a call of calculateRate: its arguments and its result
  activeTab,          \* useState of SwapOffers, line 762
  swapForm,           \* useState, lines 1152-1155: the fields of the offer form
  lastEditedField,    \* useState, line 1156
  messagesReceived,   \* useState, line 1163
  localStorage,       \* the items "communities", "community", "messagesReceived"
  inFlight            \* the requests of fetchAllMessages that wait for their response

vars == <<input, store, joinedCommunities, community, username, debugMode, messages, now,
          swapOffers, rateCall, activeTab, swapForm, lastEditedField, messagesReceived,
          localStorage, inFlight>>

\* Lines 1152-1155: the form as the application starts.
SwapForm(fromAsset, fromAmount, toAsset, toAmount) ==
  [fromAsset |-> fromAsset, fromAmount |-> fromAmount, toAsset |-> toAsset,
   toAmount |-> toAmount]

EmptyForm == SwapForm(T_BTC, <<>>, T_USDC, <<>>)

\* SwapOffers does not call calculateRate.
NoCall == [called |-> FALSE]

\* Every render computes the offers from the state it renders.
Render == swapOffers' = SwapOffers(messages', community', debugMode', username', now')

\* Lines 1180-1194: the settings come from localStorage; no message is held yet.
Init ==
  /\ input \in Inputs
  /\ store = <<Message(input.payload, input.topic, input.timestamp)>>
  /\ \/ /\ joinedCommunities = <<SwapCommunity, ChatCommunity>>
        /\ community = SwapCommunity
     \/ /\ input.fam = "envelope"
        /\ \/ joinedCommunities = <<SwapCommunity, ChatCommunity>> /\ community = ChatCommunity
           \/ joinedCommunities = <<>> /\ community = Undefined
  /\ username \in Usernames
  /\ debugMode \in BOOLEAN
  /\ messages = <<>>
  /\ now = ClockStart
  /\ swapOffers = <<>>
  /\ rateCall = NoCall
  /\ activeTab = "all"
  /\ swapForm = EmptyForm
  /\ lastEditedField = "from"
  /\ messagesReceived = 0
  /\ localStorage = StorageOf(joinedCommunities, community)
  /\ inFlight = <<>>

\* Lines 1332-1334: the sorted answer is shown, counted, and its count stored.
SetFetched(sortedMessages) ==
  /\ messages' = sortedMessages
  /\ messagesReceived' = Len(sortedMessages)
  /\ localStorage' = setItem(localStorage, "messagesReceived", NatDigits(Len(sortedMessages)))

\* fetchAllMessages, the request and its answer (lines 1310-1338).
FetchAllMessages ==
  /\ IF joinedCommunities = <<>>
       THEN messages' = <<>> /\ UNCHANGED <<messagesReceived, localStorage>>
       ELSE SetFetched(SortNewestFirst(StoreAnswer(store, joinedCommunities)))
  /\ UNCHANGED <<input, store, joinedCommunities, community, username, debugMode, now, rateCall,
                 activeTab, swapForm, lastEditedField, inFlight>>
  /\ Render

\* The debug switch of the settings (line 431); its change event carries the
\* new state of the box.
SetDebugMode(checked) ==
  /\ checked # debugMode
  /\ debugMode' = checked
  /\ UNCHANGED <<input, store, joinedCommunities, community, username, messages, now,
                 rateCall, activeTab, swapForm, lastEditedField, messagesReceived, localStorage, inFlight>>
  /\ Render

\* handleSettingsSave with a new name typed in the settings (lines 1487-1496).
SettingsSaveUsername(tempUsername) ==
  /\ tempUsername # username
  /\ username' = tempUsername
  /\ UNCHANGED <<input, store, joinedCommunities, community, debugMode, messages, now,
                 rateCall, activeTab, swapForm, lastEditedField, messagesReceived, localStorage, inFlight>>
  /\ Render

Next ==
  \/ FetchAllMessages
  \/ \E checked \in BOOLEAN : SetDebugMode(checked)
  \/ \E name \in Usernames : SettingsSaveUsername(name)

Spec == Init /\ [][Next]_vars

(***************************************************************************)
(* calculateRate on its own (AssetIcon.tsx lines 60-77)                    *)
(***************************************************************************)
\* The arguments: numbers on both sides of the tests of lines 61 and 72-74,
\* zero, a negative number, NaN, the infinities, and a missing argument.
RateArgs ==
  { IntNum(0), IntNum(1), IntNum(2), Num(15, 1), IntNum(100), IntNum(1000), IntNum(20000),
    IntNum(-1), NaN, Infinity(FALSE), Infinity(TRUE), Undefined, Null }

RateCall(fromAmount, toAmount, result) ==
  [called |-> TRUE, fromAmount |-> fromAmount, toAmount |-> toAmount, result |-> result]

InitRate ==
  /\ input = GoodFlat
  /\ store = <<>>
  /\ joinedCommunities = <<>>
  /\ community = Undefined
  /\ username = <<>>
  /\ debugMode = FALSE
  /\ messages = <<>>
  /\ now = ClockStart
  /\ swapOffers = <<>>
  /\ activeTab = "all"
  /\ swapForm = EmptyForm
  /\ lastEditedField = "from"
  /\ messagesReceived = 0
  /\ localStorage = EmptyStorage
  /\ inFlight = <<>>
  /\ \E fromAmount \in RateArgs, toAmount \in RateArgs :
       rateCall = RateCall(fromAmount, toAmount, Undefined)

\* The call returns.
CalculateRate ==
  /\ rateCall.result = Undefined
  /\ rateCall' = [rateCall EXCEPT !.result = Str(calculateRate(rateCall.fromAmount,
                                                               rateCall.toAmount))]
  /\ UNCHANGED <<input, store, joinedCommunities, community, username, debugMode, messages,
                 now, swapOffers, activeTab, swapForm, lastEditedField, messagesReceived, localStorage, inFlight>>

NextRate == CalculateRate

RateSpec == InitRate /\ [][NextRate]_vars

(***************************************************************************)
(* The pass over several messages                                          *)
(***************************************************************************)
TS_18 == <<"1", "8">>
T_null == <<"n", "u", "l", "l">>

\* The messages of the store: the application's own flat offer; a nested offer
\* of another application; an offer without a timestamp; a payload that is
\* not base64; a free text; the JSON text null; an offer whose fromAsset is an
\* object with a member "toString"; an offer of the chat community.
M_mine == Message(GoodFlat.payload, SwapCommunity.contentTopic, Str(TS_17))
M_other ==
  Message(encodeBase64Utf8(JSONstringify(Obj(<<KV(K_offer, NestedPart)>>))),
          SwapCommunity.contentTopic, Str(TS_18))
M_noTime ==
  Message(encodeBase64Utf8(JSONstringify(Obj(FlatPart \o <<KV(K_maker, Str(T_bob))>>))),
          SwapCommunity.contentTopic, Undefined)
M_bad64 == Message(<<"@", "@", "@", "@">>, SwapCommunity.contentTopic, Str(TS_17))
M_text == Message(GoodText.payload, SwapCommunity.contentTopic, Str(TS_18))
M_null == Message(encodeBase64Utf8(T_null), SwapCommunity.contentTopic, Str(TS_17))
M_types ==
  Message(encodeBase64Utf8(JSONstringify(
            Obj(<<KV(K_fromAsset, Obj(<<KV(K_toString, IntNum(1))>>)),
                  KV(K_fromAmount, IntNum(2)), KV(K_toAsset, Str(T_USDC)),
                  KV(K_toAmount, Str(T_4800))>>))),
          SwapCommunity.contentTopic, Str(TS_17))
M_chat == Message(GoodFlat.payload, ChatCommunity.contentTopic, Str(TS_18))

StoredMessages == <<M_bad64, M_mine, M_text, M_other, M_null, M_types, M_noTime, M_chat>>

\* The answers of the store: up to MaxMessages messages, a message any number
\* of times, in the order of StoredMessages (fetchAllMessages sorts its answer
\* by time; the order of the store shows among messages of one time only).
MaxMessages == 2
MessageLists ==
  UNION { { [i \in 1..n |-> StoredMessages[f[i]]] :
              f \in { g \in [1..n -> 1..Len(StoredMessages)] :
                        \A i \in 1..(n - 1) : g[i] <= g[i + 1] } } :
          n \in 0..MaxMessages }

\* The renders the model follows after the first.
MaxTicks == 1

InitList ==
  /\ input = GoodFlat
  /\ store \in MessageLists
  /\ joinedCommunities = <<SwapCommunity, ChatCommunity>>
  /\ community \in {Undefined, SwapCommunity}
  /\ username = U_alice
  /\ debugMode \in BOOLEAN
  /\ messages = <<>>
  /\ now = ClockStart
  /\ swapOffers = <<>>
  /\ rateCall = NoCall
  /\ activeTab = "all"
  /\ swapForm = EmptyForm
  /\ lastEditedField = "from"
  /\ messagesReceived = 0
  /\ localStorage = StorageOf(joinedCommunities, community)
  /\ inFlight = <<>>

\* The buttons of the two tabs (lines 1041 and 1053).
SetActiveTab(tab) ==
  /\ tab # activeTab
  /\ activeTab' = tab
  /\ UNCHANGED <<input, store, joinedCommunities, community, username, debugMode, messages,
                 now, rateCall, swapForm, lastEditedField, messagesReceived, localStorage, inFlight>>
  /\ Render

\* selectCommunity (lines 1411-1415).
SelectCommunity(index) ==
  /\ index \in 1..Len(joinedCommunities)
  /\ community' = joinedCommunities[index]
  /\ localStorage' = setItem(localStorage, "community",
                              JSONstringify(CommunityValue(joinedCommunities[index])))
  /\ UNCHANGED <<input, store, joinedCommunities, username, debugMode, messages, now,
                 rateCall, activeTab, swapForm, lastEditedField, messagesReceived, inFlight>>
  /\ Render

\* The uptime interval (lines 1298-1307) sets a state of App every second;
\* App renders again, and SwapOffers with it (its prop fetchAllMessages is a
\* new function at every render of App), at a later Date.now().
UptimeTick ==
  /\ now < ClockStart + MaxTicks
  /\ now' = now + 1
  /\ UNCHANGED <<input, store, joinedCommunities, community, username, debugMode, messages,
                 rateCall, activeTab, swapForm, lastEditedField, messagesReceived, localStorage, inFlight>>
  /\ Render

NextList ==
  \/ FetchAllMessages
  \/ \E checked \in BOOLEAN : SetDebugMode(checked)
  \/ \E tab \in {"all", "mine"} : SetActiveTab(tab)
  \/ \E index \in 1..2 : SelectCommunity(index)
  \/ UptimeTick

ListSpec == InitList /\ [][NextList]_vars

(***************************************************************************)
(* Sending an offer (App.tsx lines 1430-1476)                              *)
(***************************************************************************)
\* String.prototype.trim
RECURSIVE trim(_)
trim(s) ==
  IF s = <<>> THEN s
  ELSE IF s[1] \in WhiteSpace THEN trim(Tail(s))
  ELSE IF s[Len(s)] \in WhiteSpace THEN trim(SubSeq(s, 1, Len(s) - 1))
  ELSE s

\* Lines 1466-1472: the offer object of the form.
OfferOfForm(form, dateNow) ==
  Obj(<< KV(K_fromAsset, Str(form.fromAsset)),
         KV(K_fromAmount, parseFloat(form.fromAmount)),
         KV(K_toAsset, Str(form.toAsset)),
         KV(K_toAmount, parseFloat(form.toAmount)),
         KV(K_timestamp, IntNum(dateNow)) >>)

\* The items of the two asset selects (lines 649-672) and the texts typed
\* into the two amount fields (inputs of type text, lines 675-682).
T_ETH == <<"E", "T", "H">>
T_VERI == <<"V", "E", "R", "I">>
T_m3 == <<"-", "3">>
FormAssets == {T_BTC, T_ETH, T_USDC, T_VERI}
FormAmounts == {<<>>, T_1, T_1p5, S_Zero, T_abc, T_4800, T_m3}

InitSend ==
  /\ input = GoodFlat
  /\ store = <<>>
  /\ joinedCommunities = <<SwapCommunity, ChatCommunity>>
  /\ community = SwapCommunity
  /\ username = U_alice
  /\ debugMode \in BOOLEAN
  /\ messages = <<>>
  /\ now = ClockStart
  /\ swapOffers = <<>>
  /\ rateCall = NoCall
  /\ activeTab = "all"
  /\ lastEditedField = "from"
  /\ messagesReceived = 0
  /\ localStorage = StorageOf(joinedCommunities, community)
  /\ inFlight = <<>>
  /\ \E fromAsset \in FormAssets, toAsset \in FormAssets :
     \E fromAmount \in FormAmounts, toAmount \in FormAmounts :
       swapForm = SwapForm(fromAsset, fromAmount, toAsset, toAmount)

\* sendSwapOffer and the sendMessage it calls.  The button is disabled, and
\* the handler returns, while an amount is empty; sendMessage returns when no
\* community is selected.  The relay stamps the message it stores; input
\* remembers the form that was sent.
SendForm ==
  /\ swapForm.fromAmount # <<>> /\ swapForm.toAmount # <<>>
  /\ LET text == trim(JSONstringify(OfferOfForm(swapForm, now))) IN
     /\ store' = IF community = Undefined \/ text = <<>> THEN store
                 ELSE <<Message(encodeBase64Utf8(text), community.contentTopic, Str(TS_17))>>
                        \o store
     /\ input' = [kind |-> "sent", fam |-> "sent", form |-> swapForm, text |-> text]
  /\ swapForm' = [swapForm EXCEPT !.fromAmount = <<>>, !.toAmount = <<>>]
  /\ UNCHANGED <<joinedCommunities, community, username, debugMode, messages, now, rateCall,
                 activeTab, lastEditedField, messagesReceived, localStorage>>
  /\ Render

\* The send alone; the refetch of line 1455 is the action FetchAllMessages.
SendSwapOffer == SendForm /\ UNCHANGED inFlight

NextSend ==
  \/ SendSwapOffer
  \/ FetchAllMessages
  \/ \E checked \in BOOLEAN : SetDebugMode(checked)

SendSpec == InitSend /\ [][NextSend]_vars

(***************************************************************************)
(* The communities (App.tsx lines 90-130, 299-335 and 1352-1428)           *)
(***************************************************************************)
\* String.prototype.split with a separator of one character.
RECURSIVE split(_, _)
split(s, sep) ==
  IF \E i \in 1..Len(s) : s[i] = sep THEN
    Bind(CHOOSE i \in 1..Len(s) : s[i] = sep /\ \A j \in 1..(i - 1) : s[j] # sep, LAMBDA i :
      <<SubSeq(s, 1, i - 1)>> \o split(SubSeq(s, i + 1, Len(s)), sep))
  ELSE <<s>>

\* App.tsx lines 126-130: the topic starts with a slash and split('/') gives
\* four parts, the last three of them not empty.
validateContentTopic(topic) ==
  /\ startsWith(topic, <<"/">>)
  /\ Bind(split(topic, "/"), LAMBDA parts :
       Len(parts) = 4 /\ parts[2] # <<>> /\ parts[3] # <<>> /\ parts[4] # <<>>)

\* The function of the same name of lib/topic.ts (lines 11-23), which App.tsx
\* does not import: /^\/([^\/]+)\/(\d+)\/([^\/]+)\/([^\/]+)$/.
LibValidateContentTopic(topic) ==
  /\ topic # <<>>
  /\ Bind(split(topic, "/"), LAMBDA parts :
       /\ Len(parts) = 5 /\ parts[1] = <<>>
       /\ \A i \in 2..5 : parts[i] # <<>>
       /\ \A i \in 1..Len(parts[3]) : parts[3][i] \in Digits)

\* replace(/\s+/g, '-')
RECURSIVE DashForSpaces(_)
DashForSpaces(s) ==
  IF s = <<>> THEN <<>>
  ELSE IF s[1] \in WhiteSpace THEN <<"-">> \o DashForSpaces(SubSeq(s, SkipWs(s, 1), Len(s)))
  ELSE <<s[1]>> \o DashForSpaces(Tail(s))

\* The characters of /[\/\\:*?"<>|]/.
Problematic == {"/", BSLASH, ":", "*", "?", QUOTE, "<", ">", "|"}

\* The sanitizer without its second replacement.
sanitizeCommunityName_spacesOnly(name) == DashForSpaces(name)

\* App.tsx lines 120-123.
sanitizeCommunityName(name) ==
  Bind(DashForSpaces(name), LAMBDA dashed :
    [i \in 1..Len(dashed) |-> IF dashed[i] \in Problematic THEN "-" ELSE dashed[i]])

T_waku == <<"w", "a", "k", "u">>
T_status == <<"s", "t", "a", "t", "u", "s">>
T_proto == <<"p", "r", "o", "t", "o">>
T_default == <<"d", "e", "f", "a", "u", "l", "t">>
T_default_content == <<"d", "e", "f", "a", "u", "l", "t", "-", "c", "o", "n", "t", "e", "n", "t">>

\* App.tsx lines 90-117; nothing in the body throws on a string.
generateDisplayName(contentTopic) ==
  Bind(split(contentTopic, "/"), LAMBDA parts :
    IF Len(parts) < 4 THEN contentTopic
    ELSE IF parts[2] = T_waku /\ parts[4] = T_default_content THEN T_waku
    ELSE IF parts[2] = T_status THEN T_status
    ELSE IF parts[4] # T_proto /\ parts[4] # parts[2] /\ parts[4] # T_default
      THEN parts[2] \o <<"/">> \o parts[4]
    ELSE parts[2])

\* The toasts of createCommunity.
Toast_topicEmpty == "Content topic is empty"
Toast_invalidFormat == "Invalid content topic format. Expected: /app/version/topic/encoding"
Toast_nameEmpty == "Community name is empty"
Toast_alreadyJoined == "Already joined this community"
Toast_joined == "Joined"

Rejected(toast) == [toast |-> toast, payload |-> Undefined]

\* Lines 1378-1382: the content topic of a name, in simple mode.
SimpleTopic(communityName) ==
  Bind(sanitizeCommunityName(communityName), LAMBDA sanitizedName :
    IF sanitizedName = T_swap_offers THEN SwapOffersTopic
    ELSE <<"/", "w", "a", "k", "u", "/", "1", "/">> \o sanitizedName \o <<"/", "p", "r", "o", "t", "o">>)

\* createCommunity without the test of lines 1391-1395.
createCommunity_noExistsTest(advancedMode, fullContentTopic, communityName, joined) ==
  IF advancedMode /\ ~validateContentTopic(fullContentTopic) THEN Rejected(Toast_invalidFormat)
  ELSE IF ~advancedMode /\ trim(communityName) = <<>> THEN Rejected(Toast_nameEmpty)
  ELSE [ toast |-> Toast_joined,
         payload |-> IF advancedMode
                       THEN Community(generateDisplayName(trim(fullContentTopic)),
                                      trim(fullContentTopic))
                       ELSE Community(communityName, SimpleTopic(communityName)) ]

\* Lines 1352-1408: the toast of createCommunity and the community it joins,
\* if it joins one.
createCommunity(advancedMode, fullContentTopic, communityName, joined) ==
  IF advancedMode /\ trim(fullContentTopic) = <<>> THEN Rejected(Toast_topicEmpty)
  ELSE IF advancedMode /\ ~validateContentTopic(fullContentTopic)
    THEN Rejected(Toast_invalidFormat)
  ELSE IF ~advancedMode /\ trim(communityName) = <<>> THEN Rejected(Toast_nameEmpty)
  ELSE Bind(IF advancedMode
              THEN Community(generateDisplayName(trim(fullContentTopic)),
                             trim(fullContentTopic))
              ELSE Community(communityName, SimpleTopic(communityName)), LAMBDA payload :
    IF \E i \in 1..Len(joined) : joined[i].contentTopic = payload.contentTopic
      THEN Rejected(Toast_alreadyJoined)
      ELSE [toast |-> Toast_joined, payload |-> payload])

\* Array.prototype.splice(index, 1) and splice(index, 0, item); index counts
\* from 0.
SpliceOut(seq, index) == SubSeq(seq, 1, index) \o SubSeq(seq, index + 2, Len(seq))
SpliceIn(seq, index, item) == SubSeq(seq, 1, index) \o <<item>> \o SubSeq(seq, index + 1, Len(seq))

\* Lines 319-327: the list after the drop.
Dropped_(joined, draggedItem, dropIndex) ==
  SpliceIn(SpliceOut(joined, draggedItem),
           IF draggedItem < dropIndex THEN dropIndex - 1 ELSE dropIndex,
           joined[draggedItem + 1])

\* A request of fetchAllMessages on its way: the answer of the store, and
\* whether the response of a request made later has arrived before its own.
Request(answer) == [answer |-> answer, superseded |-> FALSE]

\* The requests that wait for their response at one time.
MaxInFlight == 2

\* The effect of lines 1340-1342 after a change of the joined list: the part
\* of fetchAllMessages before its await (lines 1312-1323).
FetchAllMessagesRequest(joined) ==
  IF joined = <<>>
    THEN messages' = <<>> /\ UNCHANGED <<messagesReceived, inFlight>>
    ELSE /\ Len(inFlight) < MaxInFlight
         /\ inFlight' = Append(inFlight, Request(StoreAnswer(store, joined)))
         /\ UNCHANGED <<messages, messagesReceived>>

\* The response of a request arrives: fetchAllMessages after its await (lines
\* 1324-1334).
FetchAllMessagesResponse(i) ==
  /\ i \in 1..Len(inFlight)
  /\ SetFetched(SortNewestFirst(inFlight[i].answer))
  /\ inFlight' = [j \in 1..(Len(inFlight) - 1) |->
                    IF j < i THEN [inFlight[j] EXCEPT !.superseded = TRUE]
                    ELSE inFlight[j + 1]]
  /\ UNCHANGED <<input, store, joinedCommunities, community, username, debugMode, now,
                 rateCall, activeTab, swapForm, lastEditedField>>
  /\ Render

\* What the model remembers of the last call of createCommunity: its toast.
CreateInput(toast) == [kind |-> "create", fam |-> "create", toast |-> toast]

\* createCommunity (lines 1352-1409) with the text typed into the field of
\* the mode, and the effect that follows a change of the joined list.
CreateCommunity(advancedMode, typed) ==
  /\ Bind(createCommunity(advancedMode, typed, typed, joinedCommunities), LAMBDA result :
       /\ input' = CreateInput(result.toast)
       /\ IF result.toast # Toast_joined
           THEN UNCHANGED <<joinedCommunities, community, localStorage, messages,
                            messagesReceived, inFlight>>
           ELSE /\ joinedCommunities' = Append(joinedCommunities, result.payload)
                /\ community' = result.payload
                /\ localStorage' =
                     setItem(setItem(localStorage, "communities",
                                     JSONstringify(CommunityValues(joinedCommunities'))),
                             "community", JSONstringify(CommunityValue(result.payload)))
                /\ FetchAllMessagesRequest(joinedCommunities'))
  /\ UNCHANGED <<store, username, debugMode, now, rateCall, activeTab, swapForm,
                 lastEditedField>>
  /\ Render

\* deleteCommunity (lines 1417-1428); index counts from 0.
DeleteCommunity(index) ==
  /\ index \in 0..(Len(joinedCommunities) - 1)
  /\ joinedCommunities' = SpliceOut(joinedCommunities, index)
  /\ IF joinedCommunities' # <<>>
       THEN /\ community' = joinedCommunities'[1]
            /\ localStorage' =
                 setItem(setItem(localStorage, "communities",
                                 JSONstringify(CommunityValues(joinedCommunities'))),
                         "community", JSONstringify(CommunityValue(joinedCommunities'[1])))
       ELSE /\ community' = Undefined
            /\ localStorage' =
                 removeItem(setItem(localStorage, "communities",
                                    JSONstringify(CommunityValues(joinedCommunities'))),
                            "community")
  /\ FetchAllMessagesRequest(joinedCommunities')
  /\ UNCHANGED <<input, store, username, debugMode, now, rateCall, activeTab, swapForm,
                 lastEditedField>>
  /\ Render

\* A drag of the entry draggedItem that ends with a drop on the entry
\* dropIndex: handleDragStart and handleDrop (lines 299-335); the browser
\* delivers no other event of the page between the two.
HandleDrop(draggedItem, dropIndex) ==
  /\ draggedItem \in 0..(Len(joinedCommunities) - 1)
  /\ dropIndex \in 0..(Len(joinedCommunities) - 1)
  /\ joinedCommunities' = Dropped_(joinedCommunities, draggedItem, dropIndex)
  /\ localStorage' = setItem(localStorage, "communities",
                             JSONstringify(CommunityValues(joinedCommunities')))
  /\ FetchAllMessagesRequest(joinedCommunities')
  /\ UNCHANGED <<input, store, community, username, debugMode, now, rateCall, activeTab,
                 swapForm, lastEditedField>>
  /\ Render

\* The names typed in simple mode (handleCommunityNameChange, lines 290-296,
\* lets no name with a slash into the field) and the topics typed in advanced
\* mode.
N_swap_offers_spaced == <<"s", "w", "a", "p", " ", "o", "f", "f", "e", "r", "s">>
N_a_colon_b == <<"a", ":", "b">>
N_quoted == <<" ", "q", QUOTE, BSLASH>>
N_blank == <<" ", " ">>
CommunityNames == {<<>>, N_blank, T_swap_offers, N_swap_offers_spaced, N_quoted}

F_example == <<"/", "m", "y", "-", "a", "p", "p", "/", "1", "/", "m", "y", "-", "t", "o", "p", "i", "c", "/", "p", "r", "o", "t", "o">>
F_three == <<"/", "a", "/", "b", "/", "c">>
F_three_spaced == <<"/", "a", "/", "b", "/", "c", " ">>
F_no_slash == <<"a", "/", "1", "/", "c", "/", "d">>
F_empty_part == <<"/", "a", "/", "/", "c", "/", "d">>
F_letters == <<"/", "a", "/", "x", "/", "c", "/", "d">>
FullContentTopics ==
  {<<>>, N_blank, F_example, F_three, F_three_spaced, F_no_slash, F_empty_part, F_letters}

InitCommunity ==
  /\ input = GoodFlat
  /\ store = <<>>
  /\ joinedCommunities = <<>>
  /\ community = Undefined
  /\ username = U_alice
  /\ debugMode = FALSE
  /\ messages = <<>>
  /\ now = ClockStart
  /\ swapOffers = <<>>
  /\ rateCall = NoCall
  /\ activeTab = "all"
  /\ swapForm = EmptyForm
  /\ lastEditedField = "from"
  /\ messagesReceived = 0
  /\ localStorage = EmptyStorage
  /\ inFlight = <<>>

\* The longest list of the texts above has three communities.
NextCommunity ==
  \/ \E typed \in CommunityNames : CreateCommunity(FALSE, typed)
  \/ \E typed \in FullContentTopics : CreateCommunity(TRUE, typed)
  \/ \E index \in 1..3 : SelectCommunity(index)
  \/ \E index \in 0..2 : DeleteCommunity(index)
  \/ \E draggedItem \in 0..2, dropIndex \in 0..2 : HandleDrop(draggedItem, dropIndex)
  \/ \E i \in 1..MaxInFlight : FetchAllMessagesResponse(i)

CommunitySpec == InitCommunity /\ [][NextCommunity]_vars

(***************************************************************************)
(* Overlapping polls (App.tsx lines 1310-1342 and 1455)                    *)
(***************************************************************************)
\* sendSwapOffer with a community selected, and the timer of line 1455 that
\* calls fetchAllMessages a second after the relay has stored the message.
SendThenRefetch ==
  /\ community # Undefined
  /\ joinedCommunities # <<>>
  /\ SendForm
  /\ store' # store
  /\ Len(inFlight) < MaxInFlight
  /\ inFlight' = Append(inFlight, Request(StoreAnswer(store', joinedCommunities)))

InitPoll ==
  /\ input = GoodFlat
  /\ store = <<>>
  /\ joinedCommunities = <<SwapCommunity, ChatCommunity>>
  /\ community \in {SwapCommunity, ChatCommunity}
  /\ username = U_alice
  /\ debugMode = FALSE
  /\ messages = <<>>
  /\ now = ClockStart
  /\ swapOffers = <<>>
  /\ rateCall = NoCall
  /\ activeTab = "all"
  /\ lastEditedField = "from"
  /\ messagesReceived = 0
  /\ localStorage = StorageOf(joinedCommunities, community)
  /\ inFlight = <<>>
  /\ \E toAmount \in {T_1, T_1p5} : swapForm = SwapForm(T_ETH, T_1, T_USDC, toAmount)

NextPoll ==
  \/ SendThenRefetch
  \/ \E index \in 0..1 : DeleteCommunity(index)
  \/ \E draggedItem \in 0..1, dropIndex \in 0..1 : HandleDrop(draggedItem, dropIndex)
  \/ \E index \in 1..2 : SelectCommunity(index)
  \/ \E i \in 1..MaxInFlight : FetchAllMessagesResponse(i)

PollSpec == InitPoll /\ [][NextPoll]_vars

(***************************************************************************)
(* The amounts of the offer form (App.tsx lines 1196-1252)                 *)
(***************************************************************************)
\* Lines 1174-1179 and 1201-1209: the prices the application starts with.
getPrice(asset) ==
  CASE asset = T_BTC -> Num(6642025, 2)
    [] asset = T_ETH -> Num(32005, 1)
    [] asset = T_USDC -> IntNum(1)
    [] asset = T_VERI -> Num(1234, 4)
    [] OTHER -> IntNum(1)

\* The product of two numbers.
Times(a, b) == Num(a.m * b.m, a.e + b.e)

\* replace(/\.?0+$/, ''): the zeros that end the text go, and the point
\* before them.
RECURSIVE StripZeros(_)
StripZeros(s) ==
  IF s = <<>> \/ s[Len(s)] # "0" THEN s
  ELSE Bind(SubSeq(s, 1, Len(s) - 1), LAMBDA rest :
    IF rest # <<>> /\ rest[Len(rest)] = "0" THEN StripZeros(rest)
    ELSE IF rest # <<>> /\ rest[Len(rest)] = "." THEN SubSeq(rest, 1, Len(rest) - 1)
    ELSE rest)

\* Lines 1197-1219.
calculateConversion(amount, fromAssetType, toAssetType) ==
  IF amount = <<>> THEN <<>>
  ELSE Bind(parseFloat(amount), LAMBDA numAmount :
    IF numAmount.t = "nan" \/ LeZero(numAmount) THEN <<>>
    ELSE StripZeros(toFixedQuot(Times(numAmount, getPrice(fromAssetType)),
                                getPrice(toAssetType),
                                IF toAssetType = T_USDC THEN 3 ELSE 5)))

\* Lines 1228-1235 and 1244-1251: the amount of the other field after an edit
\* of the field "edited" to value.
OtherAmount(value, other, edited, fromAssetType, toAssetType) ==
  IF value # <<>> /\ (lastEditedField = edited \/ other = <<>>) THEN
    Bind(calculateConversion(value, fromAssetType, toAssetType), LAMBDA converted :
      IF converted # <<>> THEN converted ELSE other)
  ELSE IF value = <<>> THEN <<>>
  ELSE other

\* What the model remembers of the edits: whether each amount still is the
\* text the user typed into its field, and the field whose typed text a
\* calculation has replaced.
FormInput(typedFrom, typedTo, replaced) ==
  [ kind |-> "form", fam |-> "form", typedFrom |-> typedFrom, typedTo |-> typedTo,
    replaced |-> replaced ]

\* The texts typed into the amount fields, and the assets selected in the
\* two selects, fromAsset first (the conversions of these stay within the
\* integers of the model checker).
TypedAmounts == {<<>>, T_1, T_2, T_1p5, S_Zero, T_abc}
SelectedAssets == {<<T_ETH, T_USDC>>, <<T_USDC, T_ETH>>, <<T_USDC, T_USDC>>}

InitForm ==
  /\ input = FormInput(FALSE, FALSE, "none")
  /\ store = <<>>
  /\ joinedCommunities = <<SwapCommunity, ChatCommunity>>
  /\ community = SwapCommunity
  /\ username = U_alice
  /\ debugMode = FALSE
  /\ messages = <<>>
  /\ now = ClockStart
  /\ swapOffers = <<>>
  /\ rateCall = NoCall
  /\ activeTab = "all"
  /\ \E assets \in SelectedAssets : swapForm = SwapForm(assets[1], <<>>, assets[2], <<>>)
  /\ lastEditedField = "from"
  /\ messagesReceived = 0
  /\ localStorage = StorageOf(joinedCommunities, community)
  /\ inFlight = <<>>

\* handleFromAmountChange (lines 1222-1236); the change event carries a text
\* that is not the text of the field.
HandleFromAmountChange(value) ==
  /\ value # swapForm.fromAmount
  /\ swapForm' = [swapForm EXCEPT
                    !.fromAmount = value,
                    !.toAmount = OtherAmount(value, swapForm.toAmount, "from",
                                             swapForm.fromAsset, swapForm.toAsset)]
  /\ lastEditedField' = "from"
  /\ input' = FormInput(value # <<>>,
                        input.typedTo /\ swapForm'.toAmount = swapForm.toAmount,
                        IF input.typedTo /\ swapForm'.toAmount # swapForm.toAmount
                          THEN "to" ELSE "none")
  /\ UNCHANGED <<store, joinedCommunities, community, username, debugMode, messages, now,
                 rateCall, activeTab, messagesReceived, localStorage, inFlight>>
  /\ Render

\* handleToAmountChange (lines 1238-1252).
HandleToAmountChange(value) ==
  /\ value # swapForm.toAmount
  /\ swapForm' = [swapForm EXCEPT
                    !.toAmount = value,
                    !.fromAmount = OtherAmount(value, swapForm.fromAmount, "to",
                                               swapForm.toAsset, swapForm.fromAsset)]
  /\ lastEditedField' = "to"
  /\ input' = FormInput(input.typedFrom /\ swapForm'.fromAmount = swapForm.fromAmount,
                        value # <<>>,
                        IF input.typedFrom /\ swapForm'.fromAmount # swapForm.fromAmount
                          THEN "from" ELSE "none")
  /\ UNCHANGED <<store, joinedCommunities, community, username, debugMode, messages, now,
                 rateCall, activeTab, messagesReceived, localStorage, inFlight>>
  /\ Render

NextForm ==
  \/ \E value \in TypedAmounts : HandleFromAmountChange(value)
  \/ \E value \in TypedAmounts : HandleToAmountChange(value)

FormSpec == InitForm /\ [][NextForm]_vars

(***************************************************************************)
(* Properties of the pipeline                                              *)
(***************************************************************************)
\* The relay's message has been fetched and is on the selected topic.
Shown ==
  /\ messages # <<>>
  /\ community.t # "undef"
  /\ messages[1].contentTopic = community.contentTopic

\* The pass has made an offer of the message.
Produced == Len(swapOffers) = 1
TheOffer == swapOffers[1]

\* pat is a part of text, told by the parts of text.
Occurs(pat, text) ==
  \E i \in 1..(Len(text) - Len(pat) + 1) : SubSeq(text, i, i + Len(pat) - 1) = pat

\* Rules 1 to 3 of the classifier, on the text the sender wrote.
HandleRules(text, handle) ==
  \/ Occurs(Quoted(handle), text)
  \/ Occurs(Quoted(handle) \o <<":">>, text)
  \/ /\ Len(text) > Len(handle)
     /\ SubSeq(text, 1, Len(handle) + 1) = handle \o <<":">>

OwnKeys == {K_fromAsset, K_fromAmount, K_toAsset, K_toAmount, K_timestamp}
ForeignKeys == {K_offer, K_id, K_type, K_maker, K_clientId}

ForeignMarked(text) == \E k \in ForeignKeys : Occurs(Quoted(k), text)

\* Rule 4 of the classifier, on the text the sender wrote.
StructuralText(text) ==
  /\ \A k \in OwnKeys : Occurs(Quoted(k), text)
  /\ ~ForeignMarked(text)

\* C1: an offer made of a text that contains the quoted handle, or the quoted
\* handle followed by a colon, or that starts with the handle and a colon, has
\* isMyOffer = true, whatever the structural rule says of the text, foreign
\* markers included.
C1_HandleRulesGiveMine ==
  (Shown /\ Produced /\ HandleRules(input.text, username)) => TheOffer.isMyOffer

\* An offer with the handle "alice" as a quoted value and the foreign marker
\* "maker" in its text.
C1_Witness ==
  /\ Shown /\ Produced
  /\ username = U_alice
  /\ Occurs(Quoted(U_alice), input.text)
  /\ Occurs(Quoted(K_maker), input.text)
  /\ ~StructuralText(input.text)
  /\ TheOffer.isMyOffer

\* C2: an offer made of a text that satisfies none of the three handle rules
\* has isMyOffer = true exactly when the text contains the five quoted keys
\* "fromAsset", "fromAmount", "toAsset", "toAmount", "timestamp" and none of the
\* quoted markers "offer", "id", "type", "maker", "clientId".
C2_StructuralRuleDecides ==
  (Shown /\ Produced /\ ~HandleRules(input.text, username))
    => (TheOffer.isMyOffer <=> StructuralText(input.text))

\* An offer of the debug mode that is mine by the structural rule alone.
C2_Witness ==
  /\ Shown /\ Produced /\ debugMode
  /\ ~HandleRules(input.text, username)
  /\ StructuralText(input.text)
  /\ TheOffer.isMyOffer

\* The flat payload of scenario A: an object with the five keys of the
\* application's own offer, read in normal mode, the handle nowhere in its text.
ScenarioA ==
  /\ Shown /\ Produced /\ ~debugMode
  /\ input.kind = "json" /\ input.shape = "flat"
  /\ \A k \in OwnKeys : Get(input.val, k).t # "undef"
  /\ ~Occurs(username, input.text)

\* C3 as stated: scenario A yields an offer with isMyOffer = false.
C3_ScenarioANotMine == ScenarioA => ~TheOffer.isMyOffer

\* C3, amended: scenario A yields an offer with isMyOffer = true, by the
\* structural rule, unless the text also holds one of the quoted markers
\* "offer", "id", "type", "maker", "clientId"; then isMyOffer = false.
C3_ScenarioAMineByStructure ==
  ScenarioA => (TheOffer.isMyOffer <=> ~ForeignMarked(input.text))

\* The payload of scenario A itself, as sendSwapOffer writes it.
C3_Witness ==
  /\ ScenarioA
  /\ input.val = Obj(FlatMembers)
  /\ username = U_alice
  /\ TheOffer.isMyOffer
  /\ TheOffer.fromAsset = T_BTC /\ TheOffer.toAsset = T_USDC

\* The four members written into a payload of one shape, in the order
\* fromAsset, fromAmount, toAsset, toAmount (an undefined member is left out
\* of the text by JSON.stringify).
GivenFields(v, shape) ==
  CASE shape = "nested" ->
         LET o == v.kv[1].v IN <<o.kv[1].v, o.kv[2].v, o.kv[3].v, o.kv[4].v>>
    [] shape = "fromto" ->
         LET f == v.kv[1].v
             g == v.kv[2].v
         IN <<f.kv[1].v, f.kv[2].v, g.kv[1].v, g.kv[2].v>>
    [] shape = "flat" -> <<v.kv[1].v, v.kv[2].v, v.kv[3].v, v.kv[4].v>>

\* Absent, null or the empty string.
Missing(v) == v.t \in {"undef", "null"} \/ v = Str(<<>>)

\* C4: in normal mode a JSON payload of any of the three shapes whose
\* fromAsset, toAsset, fromAmount or toAmount is absent, null or the empty
\* string makes no offer; so does a flat payload that lacks one of the four.
C4_NormalExcludesMissing ==
  /\ ( /\ Shown /\ ~debugMode /\ input.fam = "fields"
       /\ \E i \in 1..4 : Missing(GivenFields(input.val, input.shape)[i]) )
       => ~Produced
  /\ ( /\ Shown /\ ~debugMode /\ input.fam = "class"
       /\ \E k \in {K_fromAsset, K_fromAmount, K_toAsset, K_toAmount} :
            ~HasOwn(input.val, k) )
       => ~Produced

\* Scenario B: the flat payload of the application without its toAmount, shown
\* in normal mode.
C4_Witness ==
  /\ Shown /\ ~debugMode /\ input.fam = "class"
  /\ input.val = Obj(SelectSeq(FlatMembers, LAMBDA m : m.k # K_toAmount))
  /\ ~Produced

\* What a reader of the words of a free text expects the scan to find: the
\* tickers word by word ("ethereum" is read as far as "eth", the alternative
\* the regular expression tries first), and the numbers word by word.
TickerOfWord(w) ==
  IF w = T_BTC THEN <<T_BTC>>
  ELSE IF w \in {T_eth, T_ethereum} THEN << <<"E", "T", "H">> >>
  ELSE <<>>

TickersOfWords(ws) == Flatten([i \in 1..Len(ws) |-> TickerOfWord(ws[i])])

\* parseFloat(n) || n: the number, or the digits when the number is zero.
AmountOfWord(w) ==
  IF w = T_2 THEN << IntNum(2) >>
  ELSE IF w = T_1p5 THEN << Num(15, 1) >>
  ELSE IF w = S_Zero THEN << Str(S_Zero) >>
  ELSE <<>>

AmountsOfWords(ws) == Flatten([i \in 1..Len(ws) |-> AmountOfWord(ws[i])])

NthOr(seq, n, default) == IF Len(seq) >= n THEN seq[n] ELSE default

\* The offer's four fields are those the words of the text give.
ScrapedFromWords(o, ws) ==
  /\ o.fromAsset = NthOr(TickersOfWords(ws), 1, S_Unknown)
  /\ o.toAsset = NthOr(TickersOfWords(ws), 2, S_Unknown)
  /\ o.fromAmount = NthOr(AmountsOfWords(ws), 1, Str(S_QMark))
  /\ o.toAmount = NthOr(AmountsOfWords(ws), 2, Str(S_QMark))

\* C5: a decodable payload that is not JSON makes no offer in normal mode,
\* and in debug mode (the message has a timestamp) makes an offer with
\* isValidJSON = false whose fields are scraped from the text; an offer made
\* of a payload that is JSON has isValidJSON = true.
C5_ParseFailureHandling ==
  /\ (Shown /\ input.kind = "text" /\ ~debugMode) => ~Produced
  /\ (Shown /\ input.kind = "text" /\ debugMode /\ Truthy(input.timestamp))
       => /\ Produced
          /\ ~TheOffer.isValidJSON
          /\ ScrapedFromWords(TheOffer, input.words)
  /\ (Shown /\ input.kind = "json" /\ Produced) => TheOffer.isValidJSON

\* A free text with a ticker and a number, shown in debug mode.
C5_Witness ==
  /\ Shown /\ debugMode /\ input.kind = "text" /\ Produced
  /\ ~TheOffer.isValidJSON
  /\ TheOffer.fromAsset = T_BTC
  /\ TheOffer.fromAmount = Num(15, 1)

\* The shape a payload of several shapes is read as.
SelectedShape(v) ==
  IF Truthy(Get(v, K_offer)) THEN "nested"
  ELSE IF Truthy(Get(v, K_from)) /\ Truthy(Get(v, K_to)) THEN "fromto"
  ELSE "flat"

\* The part of the selected shape holds its four members.
SelectedPartFull(v) ==
  CASE SelectedShape(v) = "nested" -> Get(v, K_offer) = NestedPart
    [] SelectedShape(v) = "fromto" -> Get(v, K_from) = FromPart /\ Get(v, K_to) = ToPart
    [] SelectedShape(v) = "flat" -> HasOwn(v, K_fromAsset)

\* The tickers and amounts each part carries (NestedPart, FromPart and ToPart,
\* FlatPart), as the modes give them.
PartFields(shape) ==
  CASE shape = "nested" -> << <<"E", "T", "H">>, Num(15, 1), T_USDC, IntNum(4800) >>
    [] shape = "fromto" -> << T_BTC, IntNum(1), T_USDC, IntNum(9999) >>
    [] shape = "flat" -> << <<"V", "E", "R", "I">>, IntNum(3), T_BTC, IntNum(122) >>

HasFields(o, fs) ==
  /\ o.fromAsset = fs[1] /\ o.fromAmount = fs[2]
  /\ o.toAsset = fs[3] /\ o.toAmount = fs[4]

\* C6: in both modes a payload with a truthy top-level offer is read from
\* inside offer only, whatever from/to or flat keys it also holds; without it,
\* a payload with both from and to is read from those only; the flat keys
\* are read otherwise.  The shape selected supplies all four fields: when it
\* holds them the offer carries them, and when it does not no other shape
\* fills in (no offer in normal mode, the placeholders in debug mode).
C6_ShapePriority ==
  (Shown /\ input.fam = "mixed") =>
    LET sh == SelectedShape(input.val) IN
    IF SelectedPartFull(input.val)
      THEN Produced /\ HasFields(TheOffer, PartFields(sh))
      ELSE IF debugMode
        THEN Produced /\ HasFields(TheOffer, <<S_Unknown, Str(S_QMark), S_Unknown, Str(S_QMark)>>)
        ELSE ~Produced

\* A payload with a nested offer, from and to, and flat keys, read from the
\* nested offer.
C6_Witness ==
  /\ Shown /\ input.fam = "mixed" /\ Produced
  /\ Get(input.val, K_offer) = NestedPart
  /\ Get(input.val, K_from) = FromPart /\ Get(input.val, K_to) = ToPart
  /\ HasOwn(input.val, K_fromAsset)
  /\ HasFields(TheOffer, PartFields("nested"))

\* The ticker an asset member of the nested shape stands for: its symbol when
\* it is an object with one, the value itself otherwise, as an upper-cased
\* string.
TickerOfAsset(a) ==
  CASE a = Str(T_btc) -> T_BTC
    [] a = Str(T_USDC) -> T_USDC
    [] a = Obj(<<KV(K_symbol, Str(T_eth))>>) -> <<"E", "T", "H">>
    [] a = Obj(<<KV(K_symbol, IntNum(7))>>) -> <<"7">>
    [] a = Obj(<<>>) ->
         <<"[", "O", "B", "J", "E", "C", "T", " ", "O", "B", "J", "E", "C", "T", "]">>

\* The number an amount member stands for.
NumberOfAmount(m) ==
  CASE m = Str(T_1p5) -> Num(15, 1)
    [] m = Str(T_4800) -> IntNum(4800)
    [] m = Str(S_Zero) -> IntNum(0)
    [] m = Str(T_abc) -> NaN
    [] m.t = "num" -> m

NestedExample ==
  Obj(<<KV(K_offer, Obj(<<KV(K_fromAsset, Obj(<<KV(K_symbol, Str(T_eth))>>)),
                          KV(K_fromAmount, Str(T_1p5)),
                          KV(K_toAsset, Str(T_usdc)),
                          KV(K_toAmount, Str(T_4800))>>))>>)

\* C7: in normal mode the offer made of a payload with a top-level offer
\* object takes each asset from its symbol when the asset is an object with a
\* symbol and from the value itself otherwise, upper-cased, and each amount as
\* the number parsed from it; the payload {"offer":{"fromAsset":{"symbol":
\* "eth"},"fromAmount":"1.5","toAsset":"usdc","toAmount":"4800"}} yields ETH,
\* 1.5, USDC, 4800.
C7_NestedExtraction ==
  /\ (Shown /\ ~debugMode /\ input.fam = "fields" /\ input.shape = "nested" /\ Produced)
       => LET g == GivenFields(input.val, "nested") IN
          HasFields(TheOffer, << TickerOfAsset(g[1]), NumberOfAmount(g[2]),
                                 TickerOfAsset(g[3]), NumberOfAmount(g[4]) >>)
  /\ (Shown /\ ~debugMode /\ input.val = NestedExample)
       => /\ Produced
          /\ HasFields(TheOffer, << <<"E", "T", "H">>, Num(15, 1), T_USDC, IntNum(4800) >>)

\* A nested offer whose fromAsset is an object with the symbol "eth".
C7_Witness ==
  /\ Shown /\ ~debugMode /\ input.fam = "fields" /\ input.shape = "nested" /\ Produced
  /\ GivenFields(input.val, "nested")[1] = Obj(<<KV(K_symbol, Str(T_eth))>>)
  /\ TheOffer.fromAsset = <<"E", "T", "H">>
  /\ TheOffer.fromAmount = Num(15, 1)

\* Not recovered: an asset that is absent, null or empty; an amount that is
\* absent or null.  (An amount that is an empty string or a string of no
\* number is kept as it is by parseFloat(x) || x, lines 832-865.)
LostAsset(a) == Missing(a)
LostAmount(m) == m.t \in {"undef", "null"}

\* C8: in debug mode every message of the selected topic with a non-empty
\* timestamp and a decodable payload makes exactly one offer, whatever the
\* payload holds; an asset that is not recovered is "Unknown" and an amount
\* that is not recovered is "?".
C8_DebugNeverExcludes ==
  (Shown /\ debugMode /\ Truthy(input.timestamp) /\ input.kind # "bad64") =>
    /\ Produced
    /\ input.fam = "fields" =>
         LET g == GivenFields(input.val, input.shape) IN
         /\ LostAsset(g[1]) => TheOffer.fromAsset = S_Unknown
         /\ LostAmount(g[2]) => TheOffer.fromAmount = Str(S_QMark)
         /\ LostAsset(g[3]) => TheOffer.toAsset = S_Unknown
         /\ LostAmount(g[4]) => TheOffer.toAmount = Str(S_QMark)

\* A JSON value of none of the three shapes: no truthy offer, not both from
\* and to, none of the flat offer keys.
Unshaped(v) ==
  /\ ~Truthy(Get(v, K_offer))
  /\ ~(Truthy(Get(v, K_from)) /\ Truthy(Get(v, K_to)))
  /\ \A k \in {K_fromAsset, K_fromAmount, K_toAsset, K_toAmount} : ~HasOwn(v, k)

UnshapedShown ==
  /\ Shown /\ debugMode /\ Truthy(input.timestamp)
  /\ input.kind = "json" /\ Unshaped(input.val)

\* C9 as stated: in debug mode a payload that is JSON of none of the three
\* shapes is scraped for tickers and numbers as a text that is not JSON is.
C9_UnshapedIsScraped ==
  UnshapedShown =>
    /\ Produced
    /\ LET f == DebugScrape(input.text) IN
       HasFields(TheOffer, <<f.fromAsset, f.fromAmount, f.toAsset, f.toAmount>>)

\* C9, amended: in debug mode a payload that is JSON of none of the three
\* shapes is not scraped when the value parsed is truthy: it is read as a
\* flat payload without the offer keys, so both assets are "Unknown" and both
\* amounts "?", whatever tickers and numbers its text holds.  The text is
\* scraped, as a text that is not JSON is, only when the value parsed is falsy
\* (null, false, 0, ""): no ticker is found, and the digits of a zero are
\* the fromAmount.
C9_UnshapedIsPlaceholders ==
  UnshapedShown =>
    /\ Produced
    /\ TheOffer.isValidJSON
    /\ IF Truthy(input.val)
         THEN HasFields(TheOffer, <<S_Unknown, Str(S_QMark), S_Unknown, Str(S_QMark)>>)
         ELSE HasFields(TheOffer,
                <<S_Unknown,
                  IF input.val.t = "num" THEN Str(input.text) ELSE Str(S_QMark),
                  S_Unknown, Str(S_QMark)>>)

\* The payload {"note":"BTC 2 for USDC 3"}: tickers and numbers in its text,
\* placeholders in its offer.
C9_Witness ==
  /\ UnshapedShown /\ Produced
  /\ input.val = Obj(<<KV(T_note, Str(T_scrape))>>)
  /\ Occurs(T_BTC, input.text)
  /\ HasFields(TheOffer, <<S_Unknown, Str(S_QMark), S_Unknown, Str(S_QMark)>>)

ScrapedShown ==
  /\ Shown /\ debugMode /\ Truthy(input.timestamp)
  /\ input.kind = "text"

\* C10 as stated: for a text that is not JSON, fromAsset and toAsset are the
\* first two distinct tickers of the text in order of appearance, upper-cased;
\* "Unknown" stands where there is none.
C10_FirstTwoDistinctTickers ==
  ScrapedShown =>
    /\ Produced
    /\ TheOffer.fromAsset = NthOr(TickersOfWords(input.words), 1, S_Unknown)
    /\ TheOffer.toAsset = SecondDistinct(TickersOfWords(input.words), S_Unknown)

\* C10, amended: for a text that is not JSON, fromAsset and toAsset are the
\* first two matches of the regular expression in order of appearance,
\* upper-cased, a repeated ticker counted each time it appears ("ethereum" is
\* matched as far as "eth"); a single match is fromAsset and toAsset stays
\* "Unknown"; with no match both stay "Unknown".
C10_FirstTwoTickers ==
  ScrapedShown =>
    /\ Produced
    /\ TheOffer.fromAsset = NthOr(TickersOfWords(input.words), 1, S_Unknown)
    /\ TheOffer.toAsset = NthOr(TickersOfWords(input.words), 2, S_Unknown)

\* The text "BTC BTC eth": the second match repeats the first.
C10_Witness ==
  /\ ScrapedShown /\ Produced
  /\ input.words = <<T_BTC, T_BTC, T_eth>>
  /\ TheOffer.fromAsset = T_BTC
  /\ TheOffer.toAsset = T_BTC

\* The numeric value of the digits of a word.
NumberOfWord(w) ==
  IF w = T_2 THEN << IntNum(2) >>
  ELSE IF w = T_1p5 THEN << Num(15, 1) >>
  ELSE IF w = S_Zero THEN << IntNum(0) >>
  ELSE <<>>

NumbersOfWords(ws) == Flatten([i \in 1..Len(ws) |-> NumberOfWord(ws[i])])

\* C11: for a text that is not JSON, shown in debug mode, fromAmount and
\* toAmount are the numeric values of the first two digit sequences of the
\* text in order of appearance, wherever the tickers stand; a single sequence
\* is fromAmount and toAmount stays "?"; with none both stay "?".
C11_FirstTwoNumbers ==
  ScrapedShown =>
    /\ Produced
    /\ TheOffer.fromAmount = NthOr(NumbersOfWords(input.words), 1, Str(S_QMark))
    /\ TheOffer.toAmount = NthOr(NumbersOfWords(input.words), 2, Str(S_QMark))

\* The same for the texts none of whose first two digit sequences is a zero.
C11_FirstTwoNonZeroNumbers ==
  (ScrapedShown /\ \A n \in 1..2 : NthOr(NumbersOfWords(input.words), n, NaN) # IntNum(0)) =>
    /\ Produced
    /\ TheOffer.fromAmount = NthOr(NumbersOfWords(input.words), 1, Str(S_QMark))
    /\ TheOffer.toAmount = NthOr(NumbersOfWords(input.words), 2, Str(S_QMark))

\* The text "BTC 0 2": the first digit sequence is a zero and is kept as the
\* string "0".
C11_ZeroKeptAsText ==
  /\ ScrapedShown /\ Produced
  /\ input.words = <<T_BTC, S_Zero, T_2>>
  /\ TheOffer.fromAmount = Str(S_Zero)
  /\ TheOffer.toAmount = IntNum(2)

\* The number an amount of an offer parses to: the amount when it is a number,
\* parseFloat of its text otherwise.
AmountNumber(x) == IF IsNumber(x) THEN x ELSE parseFloat(ToStringJS(x))

\* A rendering of t / f with a fixed number of decimals.
FixedDecimal(rate, t, f) == \E d \in 0..8 : rate = toFixedQuot(t, f, d)

\* C12: in every offer of the pass, in normal and in debug mode, the rate is
\* "N/A" when fromAmount or toAmount parses to NaN or fromAmount is zero or
\* negative, and a fixed-decimal rendering of toAmount / fromAmount otherwise;
\* no other rate (such as "0" or "NaN") is made.
C12_DegenerateRateIsNA ==
  (Shown /\ Produced) =>
    Bind(AmountNumber(TheOffer.fromAmount), LAMBDA nf :
    Bind(AmountNumber(TheOffer.toAmount), LAMBDA nt :
      IF nf.t = "nan" \/ nt.t = "nan" \/ ~GtZero(nf)
        THEN TheOffer.rate = S_NA
        ELSE FixedDecimal(TheOffer.rate, nt, nf)))

\* What the two modes make instead.  Normal mode: "0" when fromAmount is not
\* positive (NaN included), "NaN" when fromAmount is positive and toAmount is
\* NaN, four decimals otherwise.  Debug mode: four decimals when both amounts
\* are positive, "N/A" otherwise.
C12_RatesOfTheModes ==
  (Shown /\ Produced) =>
    Bind(AmountNumber(TheOffer.fromAmount), LAMBDA nf :
    Bind(AmountNumber(TheOffer.toAmount), LAMBDA nt :
      IF debugMode
        THEN IF GtZero(nf) /\ GtZero(nt)
               THEN TheOffer.rate = toFixedQuot(nt, nf, 4)
               ELSE TheOffer.rate = S_NA
        ELSE IF ~GtZero(nf) THEN TheOffer.rate = S_Zero
             ELSE IF nt.t = "nan" THEN TheOffer.rate = S_NaN
             ELSE TheOffer.rate = toFixedQuot(nt, nf, 4)))

\* A normal-mode offer whose toAmount is the text "abc": its rate is "NaN".
C12_RateNaNShown ==
  /\ Shown /\ Produced /\ ~debugMode
  /\ input.fam = "fields" /\ GivenFields(input.val, input.shape)[4] = Str(T_abc)
  /\ TheOffer.rate = S_NaN

\* A normal-mode offer whose fromAmount is the number 0: its rate is "0".
C12_RateZeroShown ==
  /\ Shown /\ Produced /\ ~debugMode
  /\ input.fam = "fields" /\ GivenFields(input.val, input.shape)[2] = IntNum(0)
  /\ TheOffer.rate = S_Zero

\* The rate of the offer is a quotient, none of the strings that stand for no
\* rate.
RateIsQuotient == TheOffer.rate \notin {S_NA, S_Zero, S_NaN}

\* The number of characters after the decimal point of a rendering.
DecimalsIn(rate) ==
  IF \E i \in 1..Len(rate) : rate[i] = "."
    THEN Len(rate) - (CHOOSE i \in 1..Len(rate) : rate[i] = ".")
    ELSE 0

\* The digits of a rendering, as a natural number.
DigitsOf(rate) ==
  Bind(SelectSeq(rate, LAMBDA c : c \in Digits), LAMBDA ds : DigitsVal(ds, 1, Len(ds) + 1))

Abs(n) == IF n < 0 THEN -n ELSE n

\* rate renders t / f (f > 0) with d decimals: no number of d decimals is
\* nearer to the quotient, and the sign is that of t.
Renders(rate, t, f, d) ==
  /\ DecimalsIn(rate) = d
  /\ 2 * Abs(Abs(t.m) * Pow10(f.e) * Pow10(d) - DigitsOf(rate) * f.m * Pow10(t.e))
       <= f.m * Pow10(t.e)
  /\ (rate[1] = "-") <=> (t.m < 0 /\ DigitsOf(rate) # 0)

\* Section 4.4 of the description: 2 decimals from 1000 up, 3 from 100 up, 8
\* below 0.0001, 4 otherwise; the quotient is t / f, f > 0.
DecimalsByMagnitude(t, f) ==
  LET n == t.m * Pow10(f.e)
      d == f.m * Pow10(t.e)
  IN CASE n >= 1000 * d -> 2
       [] n < 1000 * d /\ n >= 100 * d -> 3
       [] n < 100 * d /\ 10000 * n < d -> 8
       [] OTHER -> 4

R_65000_00 == <<"6", "5", "0", "0", "0", ".", "0", "0">>
R_65000_0000 == <<"6", "5", "0", "0", "0", ".", "0", "0", "0", "0">>

Returned == rateCall.called /\ rateCall.result # Undefined

\* Zero, missing, or not finite.
Degenerate(x) == x.t \in {"undef", "null", "nan", "inf"} \/ x = IntNum(0)

NotPositive(x) == x.t = "num" /\ x.m <= 0

S_Infinity == <<"I", "n", "f", "i", "n", "i", "t", "y">>

\* C14: calculateRate(fromAmount, toAmount) returns "N/A" whenever either
\* argument is zero, missing or not finite, or fromAmount is not positive;
\* calculateRate(0, 100) and calculateRate(100, 0) are "N/A"; every call
\* returns a string (none throws), never a rendering of NaN or of an infinity.
C14_CalculateRateGuard ==
  Returned =>
    /\ ( \/ Degenerate(rateCall.fromAmount) \/ Degenerate(rateCall.toAmount)
         \/ NotPositive(rateCall.fromAmount) ) => rateCall.result = Str(S_NA)
    /\ (rateCall.fromAmount = IntNum(0) /\ rateCall.toAmount = IntNum(100))
         => rateCall.result = Str(S_NA)
    /\ (rateCall.fromAmount = IntNum(100) /\ rateCall.toAmount = IntNum(0))
         => rateCall.result = Str(S_NA)
    /\ rateCall.result.t = "str"
    /\ rateCall.result.s \notin {S_NaN, S_Infinity, <<"-">> \o S_Infinity}

\* calculateRate(100, 0) has returned "N/A".
C14_Witness ==
  /\ Returned
  /\ rateCall.fromAmount = IntNum(100) /\ rateCall.toAmount = IntNum(0)
  /\ rateCall.result = Str(S_NA)

\* C15: a result of calculateRate other than "N/A" is toAmount / fromAmount
\* rendered with exactly 2 decimals when the quotient is at least 1000, 3 when
\* it is at least 100 and below 1000, 8 when it is below 0.0001 (every negative
\* quotient is), and 4 otherwise.
C15_CalculateRatePrecision ==
  (Returned /\ rateCall.result # Str(S_NA)) =>
    /\ Renders(rateCall.result.s, rateCall.toAmount, rateCall.fromAmount,
               DecimalsByMagnitude(rateCall.toAmount, rateCall.fromAmount))
    /\ rateCall.toAmount.m < 0 => DecimalsIn(rateCall.result.s) = 8

\* calculateRate(20000, 1.5) has returned "0.00007500".
C15_Witness ==
  /\ Returned
  /\ rateCall.fromAmount = IntNum(20000) /\ rateCall.toAmount = Num(15, 1)
  /\ rateCall.result = Str(<<"0", ".", "0", "0", "0", "0", "7", "5", "0", "0">>)

\* A key without its index: the part before the last "-".
KeyStem(key) ==
  SubSeq(key, 1, (CHOOSE i \in 1..Len(key) :
                    key[i] = "-" /\ \A j \in (i + 1)..Len(key) : key[j] # "-") - 1)

WithoutIndex(offers) == [i \in 1..Len(offers) |-> [offers[i] EXCEPT !.key = KeyStem(@)]]

\* The pass of the state over another list of messages.
PassOf(msgs) == SwapOffers(msgs, community, debugMode, username, now)

Remove(seq, j) == SubSeq(seq, 1, j - 1) \o SubSeq(seq, j + 1, Len(seq))

\* The messages of the store that fail: no base64, no JSON, null, a member of
\* an unexpected type.
FailingMessages == {M_bad64, M_text, M_null, M_types}

\* C16: the pass ends with a list of offers for every list of messages, in
\* both modes.  A message that fails (its payload is not base64, its text is
\* not JSON or is null, a member has an unexpected type) makes no offer in
\* normal mode and at most one, filled with placeholders or scraped, in debug
\* mode; the offers of the other messages are those of the list without it,
\* but for the index in their keys: the offers of a list are the offers of its
\* messages one by one.
C16_FailureIsolation ==
  /\ \A j \in 1..Len(messages) :
       messages[j] \in FailingMessages =>
         /\ Len(PassOf(<<messages[j]>>)) <= (IF debugMode THEN 1 ELSE 0)
         /\ PassOf(<<messages[j]>>) = <<>> =>
              WithoutIndex(PassOf(Remove(messages, j))) = WithoutIndex(swapOffers)
  /\ WithoutIndex(swapOffers)
       = Flatten([j \in 1..Len(messages) |-> WithoutIndex(PassOf(<<messages[j]>>))])

\* A payload that is not base64 before the application's own offer: the offer
\* is made, with the index 1.
C16_Witness ==
  /\ messages = <<M_bad64, M_mine>>
  /\ community = SwapCommunity /\ ~debugMode
  /\ Len(swapOffers) = 1
  /\ swapOffers[1].key = <<"1", "7", "-", "1">>
  /\ swapOffers[1].fromAsset = T_BTC

Elements(seq) == {seq[i] : i \in 1..Len(seq)}

\* The two views of the offers of the state.
MineView == filteredOffers(swapOffers, "mine")
OthersView == filteredOffers(swapOffers, "all")

\* The views part the offers: every offer is in exactly one, by its isMyOffer,
\* and the two counts of the labels are the sizes of the views.
ViewsPartition ==
  /\ \A o \in Elements(MineView) : o.isMyOffer
  /\ \A o \in Elements(OthersView) : ~o.isMyOffer
  /\ Elements(MineView) \cap Elements(OthersView) = {}
  /\ Elements(MineView) \cup Elements(OthersView) = Elements(swapOffers)
  /\ Len(MineView) + Len(OthersView) = Len(swapOffers)
  /\ myOffersCount(swapOffers) = Len(MineView)
  /\ othersOffersCount(swapOffers) = Len(OthersView)
  /\ myOffersCount(swapOffers) + othersOffersCount(swapOffers) = Len(swapOffers)

\* A switch of the tab leaves the offers and the counts as they are.
TabSwitchKeeps ==
  activeTab' # activeTab =>
    /\ swapOffers' = swapOffers
    /\ myOffersCount(swapOffers') = myOffersCount(swapOffers)
    /\ othersOffersCount(swapOffers') = othersOffersCount(swapOffers)

SameInputs ==
  /\ messages' = messages /\ community' = community
  /\ username' = username /\ debugMode' = debugMode

\* Two lists of offers equal but for the keys of the offers without timestamp.
SameOffers(a, b) ==
  /\ Len(a) = Len(b)
  /\ \A i \in 1..Len(a) :
       /\ a[i].fromAsset = b[i].fromAsset /\ a[i].toAsset = b[i].toAsset
       /\ a[i].fromAmount = b[i].fromAmount /\ a[i].toAmount = b[i].toAmount
       /\ a[i].rate = b[i].rate /\ a[i].isMyOffer = b[i].isMyOffer
       /\ a[i].isValidJSON = b[i].isValidJSON /\ a[i].rawMessage = b[i].rawMessage
       /\ a[i].key # b[i].key =>
            /\ a[i].timestamp = Undefined
            /\ \E j \in 1..Len(messages) :
                 /\ messages[j].timestamp = Undefined
                 /\ TextDecode(bytesFromBase64(messages[j].payload)) = a[i].rawMessage

\* C19: two passes over the same messages with the same community, handle and
\* debug flag make lists of the same length whose offers are equal one by one
\* in fromAsset, toAsset, fromAmount, toAmount, rate, isMyOffer, isValidJSON
\* and rawMessage; a key differs only where the message has no timestamp.
C19_SamePassSameOffers == [][SameInputs => SameOffers(swapOffers, swapOffers')]_vars

\* A second render, a tick of the clock after the first, of an offer without
\* timestamp beside one with a timestamp: the first key follows the clock.
C19_Witness ==
  /\ now = ClockStart + 1 /\ ~debugMode
  /\ messages = <<M_mine, M_noTime>>
  /\ Len(swapOffers) = 2
  /\ swapOffers[1].key = <<"1", "7", "-", "0">>
  /\ swapOffers[2].key = <<"1", "7", "0", "1", "-", "1">>

\* The offer is made of the message: its text and its timestamp.
MadeOf(offer, msg) ==
  /\ ~AtobThrows(msg.payload)
  /\ offer.rawMessage = TextDecode(bytesFromBase64(msg.payload))
  /\ offer.timestamp = msg.timestamp

\* C20: every offer is made of a message whose contentTopic is the
\* contentTopic of the selected community, no message of another joined
\* community makes an offer, and without a selected community there is no
\* offer.
C20_TopicFiltering ==
  /\ community = Undefined => swapOffers = <<>>
  /\ community # Undefined =>
       /\ \A i \in 1..Len(swapOffers) :
            \E j \in 1..Len(messages) :
              /\ messages[j].contentTopic = community.contentTopic
              /\ MadeOf(swapOffers[i], messages[j])
       /\ Len(swapOffers)
            <= Cardinality({j \in 1..Len(messages) :
                              messages[j].contentTopic = community.contentTopic})

\* An offer of the chat community and an offer of the swap community are
\* fetched, the swap community is selected: one offer, of the second message.
C20_Witness ==
  /\ community = SwapCommunity /\ ~debugMode
  /\ messages = <<M_chat, M_mine>>
  /\ Len(swapOffers) = 1
  /\ MadeOf(swapOffers[1], M_mine)
  /\ swapOffers[1].key = <<"1", "7", "-", "0">>

\* No community is selected and messages are fetched.
C20_NoneSelected ==
  /\ community = Undefined /\ messages # <<>> /\ swapOffers = <<>>

\* The number a text typed into an amount field stands for.
NumberTyped(s) ==
  CASE s = T_1 -> IntNum(1)
    [] s = T_1p5 -> Num(15, 1)
    [] s = S_Zero -> IntNum(0)
    [] s = T_4800 -> IntNum(4800)
    [] s = T_m3 -> IntNum(-3)
    [] s = T_abc -> NaN

\* The offer of the form has been posted and fetched, and is shown in normal
\* mode.
SentShown ==
  /\ input.kind = "sent" /\ messages # <<>>
  /\ community = SwapCommunity /\ ~debugMode

RoundTrip ==
  /\ Len(swapOffers) = 1
  /\ swapOffers[1].fromAsset = toUpperCase(input.form.fromAsset)
  /\ swapOffers[1].toAsset = toUpperCase(input.form.toAsset)
  /\ swapOffers[1].fromAmount = NumberTyped(input.form.fromAmount)
  /\ swapOffers[1].toAmount = NumberTyped(input.form.toAmount)

\* C18: for every pair of assets of the form and every pair of amount texts
\* that sendSwapOffer accepts, the message posted, decoded and read in normal
\* mode, makes an offer whose fromAsset and toAsset are the tickers chosen,
\* upper-cased, and whose fromAmount and toAmount are the numbers sent.
C18_RoundTrip == SentShown => RoundTrip

\* The same for the amount texts that are numbers.
C18_NumericRoundTrip ==
  ( /\ SentShown
    /\ NumberTyped(input.form.fromAmount) # NaN
    /\ NumberTyped(input.form.toAmount) # NaN ) => RoundTrip

\* The amount "abc" was sent: the text posted holds null, and no offer is
\* made of it.
C18_NotANumberLost ==
  /\ SentShown
  /\ input.form.fromAmount = T_abc /\ input.form.toAmount = T_4800
  /\ Occurs(Quoted(K_fromAmount) \o <<":">> \o T_null, input.text)
  /\ swapOffers = <<>>

\* The lists of offers of the two modes, on the two sides of a step that
\* switches the debug mode over the same messages.
ModeSwitch ==
  /\ debugMode' # debugMode
  /\ messages' = messages /\ community' = community /\ username' = username
NormalPass == IF debugMode THEN swapOffers' ELSE swapOffers
DebugPass == IF debugMode THEN swapOffers ELSE swapOffers'

\* The message shown has a timestamp and normal mode makes an offer of it.
NormalAccepts ==
  /\ ModeSwitch /\ Shown /\ Len(messages) = 1
  /\ Truthy(messages[1].timestamp)
  /\ Len(NormalPass) = 1

\* C25: for every message with a timestamp of which normal mode makes an
\* offer, debug mode makes an offer too, with the same fromAsset, toAsset,
\* fromAmount, toAmount and rate, in each of the three shapes.
C25_SameExtraction ==
  [][NormalAccepts =>
       /\ Len(DebugPass) = 1
       /\ DebugPass[1].fromAsset = NormalPass[1].fromAsset
       /\ DebugPass[1].toAsset = NormalPass[1].toAsset
       /\ DebugPass[1].fromAmount = NormalPass[1].fromAmount
       /\ DebugPass[1].toAmount = NormalPass[1].toAmount
       /\ DebugPass[1].rate = NormalPass[1].rate]_vars

\* What the two modes share: debug mode makes an offer with the same two
\* assets; its amounts parse to the amounts of normal mode (debug mode keeps
\* the text of an amount that is zero or no number); the rates are the same
\* when both amounts are positive.
C25_SameAssetsAndNumbers ==
  [][NormalAccepts =>
       /\ Len(DebugPass) = 1
       /\ DebugPass[1].fromAsset = NormalPass[1].fromAsset
       /\ DebugPass[1].toAsset = NormalPass[1].toAsset
       /\ AmountNumber(DebugPass[1].fromAmount) = NormalPass[1].fromAmount
       /\ AmountNumber(DebugPass[1].toAmount) = NormalPass[1].toAmount
       /\ (GtZero(NormalPass[1].fromAmount) /\ GtZero(NormalPass[1].toAmount))
            => DebugPass[1].rate = NormalPass[1].rate]_vars

\* A debug-mode offer of a payload of the from/to shape whose first amount is
\* the text "abc": the amount stays the text, the rate is "N/A".
C25_TextAmountKept ==
  /\ Shown /\ Produced /\ debugMode
  /\ input.fam = "fields" /\ input.shape = "fromto"
  /\ GivenFields(input.val, input.shape)[2] = Str(T_abc)
  /\ TheOffer.fromAmount = Str(T_abc)
  /\ TheOffer.rate = S_NA

\* C26: in debug mode a message whose timestamp is absent or empty makes no
\* offer, whatever its payload; the complete flat offer of the application,
\* of which normal mode makes an offer, is among them.
C26_DebugDropsNoTimestamp ==
  /\ (Shown /\ debugMode /\ ~Truthy(messages[1].timestamp)) => swapOffers = <<>>
  /\ (Shown /\ ~debugMode /\ input.fam = "envelope" /\ input.kind = "json"
        /\ input.val = Obj(FlatMembers))
       => Produced

\* The flat offer of the application without a timestamp, in debug mode: no
\* offer, where the pass of normal mode over the same messages makes one.
C26_Witness ==
  /\ Shown /\ debugMode
  /\ input.fam = "envelope" /\ input.val = Obj(FlatMembers) /\ input.kind = "json"
  /\ messages[1].timestamp = Undefined
  /\ swapOffers = <<>>
  /\ Len(SwapOffers(messages, community, FALSE, username, now)) = 1

\* The same with an empty timestamp.
C26_EmptyTimestamp ==
  /\ Shown /\ debugMode
  /\ input.val = Obj(FlatMembers) /\ input.kind = "json"
  /\ messages[1].timestamp = Str(<<>>)
  /\ swapOffers = <<>>

\* The index of a key: the digits after the last "-".
KeyIndex(key) == SubSeq(key, Len(KeyStem(key)) + 2, Len(key))

\* The positions, in the messages of the selected topic, of the messages of
\* which the pass makes an offer.
AcceptedPositions ==
  LET relevantMessages == RelevantMessages(messages, community) IN
  SelectSeq([i \in 1..Len(relevantMessages) |-> i], LAMBDA i :
    PassOf(<<relevantMessages[i]>>) # <<>>)

\* C27: no two offers of one pass have the same key, also when their messages
\* are the same message twice; the key of an offer ends with the position,
\* counted from 0, of its message among the messages of the selected topic,
\* the messages that make no offer counted too.
C27_KeysUnique ==
  /\ \A i, j \in 1..Len(swapOffers) : i # j => swapOffers[i].key # swapOffers[j].key
  /\ Len(AcceptedPositions) = Len(swapOffers)
  /\ \A i \in 1..Len(swapOffers) :
       KeyIndex(swapOffers[i].key) = NatDigits(AcceptedPositions[i] - 1)

\* The same message twice: two offers, equal but for the index of the key.
C27_Witness ==
  /\ messages = <<M_mine, M_mine>> /\ community = SwapCommunity
  /\ Len(swapOffers) = 2
  /\ swapOffers[1].key = <<"1", "7", "-", "0">>
  /\ swapOffers[2].key = <<"1", "7", "-", "1">>
  /\ [swapOffers[1] EXCEPT !.key = <<>>] = [swapOffers[2] EXCEPT !.key = <<>>]

\* An offer after a message that makes none: its key holds the position 1.
C27_IndexBeforeExclusion ==
  /\ messages = <<M_bad64, M_mine>> /\ community = SwapCommunity /\ debugMode
  /\ AcceptedPositions = <<2>>
  /\ KeyIndex(swapOffers[1].key) = <<"1">>

\* A ticker: a string that is not empty.
Ticker(a) == a.t = "str" /\ a.s # <<>>

\* The payload holds two tickers, the number 0 as one amount and a number or
\* a text that is not empty as the other.
ZeroAmountGiven ==
  /\ Shown /\ ~debugMode /\ input.fam = "fields"
  /\ LET g == GivenFields(input.val, input.shape) IN
     /\ Ticker(g[1]) /\ Ticker(g[3])
     /\ g[2] = IntNum(0) \/ g[4] = IntNum(0)
     /\ \A i \in {2, 4} : g[i].t = "num" \/ Ticker(g[i])

\* C28: in normal mode a payload with both tickers and the number 0 as
\* fromAmount or toAmount makes an offer, with the amount 0, in the nested,
\* the from/to and the flat shape alike.
C28_ZeroAmountAccepted ==
  ZeroAmountGiven =>
    /\ Produced
    /\ LET g == GivenFields(input.val, input.shape) IN
       /\ g[2] = IntNum(0) => TheOffer.fromAmount = IntNum(0)
       /\ g[4] = IntNum(0) => TheOffer.toAmount = IntNum(0)

\* An offer of the nested shape with the fromAmount 0.
C28_Witness ==
  /\ ZeroAmountGiven /\ Produced
  /\ input.shape = "nested"
  /\ GivenFields(input.val, input.shape)[2] = IntNum(0)
  /\ TheOffer.fromAmount = IntNum(0) /\ TheOffer.fromAsset = T_BTC

\* A step that edits the From amount, or the To amount, to a text that is not
\* empty.
FromEdited ==
  lastEditedField' = "from" /\ swapForm'.fromAmount # swapForm.fromAmount
    /\ swapForm'.fromAmount # <<>>
ToEdited ==
  lastEditedField' = "to" /\ swapForm'.toAmount # swapForm.toAmount
    /\ swapForm'.toAmount # <<>>

\* C24: while the To amount is a text the user typed, an edit of the From
\* amount to a text that is not empty leaves the To amount as it is, however
\* many such edits came before; and the same for a typed From amount under
\* edits of the To amount.
C24_ManualOverrideKept ==
  [][ /\ (FromEdited /\ input.typedTo) => swapForm'.toAmount = swapForm.toAmount
      /\ (ToEdited /\ input.typedFrom) => swapForm'.fromAmount = swapForm.fromAmount ]_vars

\* What the handlers do: the other amount is kept by the first edit after an
\* edit of the other field; an edit that follows an edit of the same field
\* calculates the other amount again, typed or not, when the text edited is a
\* positive number.
C24_KeptByFirstEditOnly ==
  [][ /\ (FromEdited /\ lastEditedField = "to" /\ swapForm.toAmount # <<>>)
           => swapForm'.toAmount = swapForm.toAmount
      /\ (ToEdited /\ lastEditedField = "from" /\ swapForm.fromAmount # <<>>)
           => swapForm'.fromAmount = swapForm.fromAmount
      /\ (FromEdited /\ lastEditedField = "from" /\ GtZero(parseFloat(swapForm'.fromAmount)))
           => swapForm'.toAmount = calculateConversion(swapForm'.fromAmount,
                                                       swapForm.fromAsset, swapForm.toAsset)
      /\ (ToEdited /\ lastEditedField = "to" /\ GtZero(parseFloat(swapForm'.toAmount)))
           => swapForm'.fromAmount = calculateConversion(swapForm'.toAmount,
                                                         swapForm.toAsset, swapForm.fromAsset)
    ]_vars

\* The To amount "2" was typed, then the From amount was edited twice: the
\* second edit, to "1" ETH, has put 3200.5 USDC in the place of the "2".
C24_TypedAmountReplaced ==
  /\ input.kind = "form" /\ input.replaced = "to"
  /\ swapForm = SwapForm(T_ETH, T_1, T_USDC, <<"3", "2", "0", "0", ".", "5">>)


(***************************************************************************)
(* Properties of the communities                                           *)
(***************************************************************************)
\* A leading slash followed by four segments, none of them empty.
FourSegments(topic) ==
  Bind(split(topic, "/"), LAMBDA parts :
    Len(parts) = 5 /\ parts[1] = <<>> /\ \A i \in 2..5 : parts[i] # <<>>)

\* A leading slash followed by three segments, none of them empty.
ThreeSegments(topic) ==
  Bind(split(topic, "/"), LAMBDA parts :
    Len(parts) = 4 /\ parts[1] = <<>> /\ \A i \in 2..4 : parts[i] # <<>>)

\* C22: validateContentTopic is true exactly for the topics of four non-empty
\* segments after a leading slash, and createCommunity in advanced mode does
\* not answer such a topic with the invalid-format error.
C22_FourSegmentTopicJoined ==
  \A topic \in FullContentTopics :
    /\ validateContentTopic(topic) <=> FourSegments(topic)
    /\ FourSegments(topic) =>
         createCommunity(TRUE, topic, <<>>, joinedCommunities).toast # Toast_invalidFormat

\* What holds instead: the validator of App.tsx is true exactly for the topics
\* of three segments, every topic of four segments gets the invalid-format
\* error, and the validator of lib/topic.ts, which accepts four segments
\* with a version of digits, is not the one createCommunity calls.
C22_ThreeSegmentsAccepted ==
  \A topic \in FullContentTopics :
    /\ validateContentTopic(topic) <=> ThreeSegments(topic)
    /\ FourSegments(topic) =>
         createCommunity(TRUE, topic, <<>>, joinedCommunities).toast = Toast_invalidFormat
    /\ LibValidateContentTopic(topic) <=>
         (FourSegments(topic) /\ \A i \in 1..Len(split(topic, "/")[3]) :
                                   split(topic, "/")[3][i] \in Digits)

\* A topic of three segments has been joined in advanced mode.
C22_ThreeSegmentTopicJoined ==
  \E i \in 1..Len(joinedCommunities) :
    joinedCommunities[i] = Community(<<"a", "/", "c">>, F_three)

N_slashed == <<"a", "/", "b">>
SimpleTopic_quoted == <<"/", "w", "a", "k", "u", "/", "1", "/", "-", "q", "-", "-", "/", "p", "r", "o", "t", "o">>
SimpleTopic_slashed == <<"/", "w", "a", "k", "u", "/", "1", "/", "a", "-", "b", "/", "p", "r", "o", "t", "o">>
SimpleTopic_colon == <<"/", "w", "a", "k", "u", "/", "1", "/", "a", "-", "b", "/", "p", "r", "o", "t", "o">>

\* The topic of a name typed in simple mode: /waku/1/<sanitized>/proto.
WakuTopic(name) == <<"/", "w", "a", "k", "u", "/", "1", "/">> \o sanitizeCommunityName(name) \o <<"/", "p", "r", "o", "t", "o">>

\* The communities joined in simple mode keep the name that was typed.
SimpleJoined == {i \in 1..Len(joinedCommunities) : joinedCommunities[i].name \in CommunityNames}

C23_SpacedNameIsSwapOffers ==
  \E i \in SimpleJoined :
    joinedCommunities[i] = Community(N_swap_offers_spaced, SwapOffersTopic)


Modes == {TRUE, FALSE}
TypedTexts == CommunityNames \cup FullContentTopics

\* How often an entry is in a list.
Count(seq, c) == Cardinality({i \in 1..Len(seq) : seq[i] = c})

NoDuplicates ==
  \A i, j \in 1..Len(joinedCommunities) :
    joinedCommunities[i].contentTopic = joinedCommunities[j].contentTopic => i = j

AlreadyJoinedKeeps ==
  \A advancedMode \in Modes, typed \in TypedTexts :
    ( /\ input'.kind = "create" /\ input'.toast = Toast_alreadyJoined
      /\ CreateCommunity(advancedMode, typed) ) =>
      UNCHANGED <<joinedCommunities, community>>

DropPermutes ==
  \A draggedItem \in 0..2, dropIndex \in 0..2 :
    (UNCHANGED <<input, community>> /\ HandleDrop(draggedItem, dropIndex)) =>
      /\ Len(joinedCommunities') = Len(joinedCommunities)
      /\ \A i \in 1..Len(joinedCommunities) :
           Count(joinedCommunities', joinedCommunities[i]) = 1

\* C29: from an empty list, no sequence of createCommunity, deleteCommunity,
\* selectCommunity and handleDrop joins one contentTopic twice; createCommunity
\* on a joined topic changes neither the list nor the selection, and
\* handleDrop only permutes the list.
C29_NoDuplicateCommunities ==
  [](NoDuplicates) /\ [][AlreadyJoinedKeeps /\ DropPermutes]_vars

\* createCommunity has refused a joined topic and the list of three
\* communities has been reordered: the community joined last is not the last.
C29_Witness ==
  /\ input.kind = "create" /\ input.toast = Toast_alreadyJoined
  /\ Len(joinedCommunities) = 3
  /\ joinedCommunities[1].contentTopic = F_three
  /\ joinedCommunities[3].contentTopic = SwapOffersTopic
  /\ community = joinedCommunities[2]

SelectionValid ==
  /\ community = Undefined <=> joinedCommunities = <<>>
  /\ community # Undefined => \E i \in 1..Len(joinedCommunities) : joinedCommunities[i] = community

PersistedEqual ==
  /\ LoadedCommunities(localStorage) = CommunityValues(joinedCommunities)
  /\ LoadedCommunity(localStorage) =
       IF community = Undefined THEN Undefined ELSE CommunityValue(community)

DeleteSelectsFirst ==
  \A index \in 0..2 :
    DeleteCommunity(index) =>
      community' = IF Len(joinedCommunities) = 1 THEN Undefined
                   ELSE IF index = 0 THEN joinedCommunities[2] ELSE joinedCommunities[1]

\* C30: from empty storage, after any sequence of createCommunity,
\* selectCommunity, deleteCommunity and handleDrop the selected community is
\* undefined exactly when the list is empty and is otherwise an entry of the
\* list; the stored "communities" and "community" read back as the list and
\* the selection; deleteCommunity selects the first entry that remains.
C30_SelectionValid ==
  [](SelectionValid /\ PersistedEqual) /\ [][DeleteSelectsFirst]_vars

\* A community was deleted while another one was selected: the selection is
\* the first of the two that remain, and the stored text has the escaped
\* quote and backslash of its name.
C30_Witness ==
  /\ Len(joinedCommunities) = 2
  /\ community = joinedCommunities[1]
  /\ community.name = N_quoted
  /\ input.kind = "create" /\ input.toast = Toast_joined
  /\ joinedCommunities[2].contentTopic = SwapOffersTopic


(***************************************************************************)
(* Properties of the polls                                                 *)
(***************************************************************************)
\* What the newest call of fetchAllMessages asked for and got: the messages
\* of the store for the joined communities.
Newest == SortNewestFirst(StoreAnswer(store, joinedCommunities))

\* C21: the response of a call of fetchAllMessages that arrives after the
\* response of a call made later is discarded: it changes neither the
\* messages nor the counter nor the stored messagesReceived.
C21_StaleResponseDiscarded ==
  [][\A i \in 1..MaxInFlight :
       ( /\ i <= Len(inFlight) /\ inFlight[i].superseded
         /\ FetchAllMessagesResponse(i) ) =>
           UNCHANGED <<messages, messagesReceived, localStorage>>]_vars

\* What happens instead: all responses have arrived, the one of the earlier
\* call last, and the messages shown and counted are the ones of a community
\* that is no longer joined.
C21_StaleResultShown ==
  /\ inFlight = <<>>
  /\ joinedCommunities = <<ChatCommunity>>
  /\ Newest = <<>>
  /\ Len(messages) = 1 /\ messages[1].contentTopic = SwapOffersTopic
  /\ messagesReceived = 1
  /\ getItem(localStorage, "messagesReceived") = Str(<<"1">>)

=============================================================================
